---- MODULE Spec2Model ----
(***************************************************************************)
(* World IM: the World event/relationship engine (src/src/world.js) and the *)
(* Agent inhabitants (src/src/agent.js, configured in src/agents).         *)
(*                                                                         *)
(* State of one World instance, one action per public operation, and the   *)
(* synchronous emit() fan-out modelled as a call stack so that handlers    *)
(* that call processMessage reentrantly are part of the behaviours.        *)
(*                                                                         *)
(* Conventions                                                             *)
(*   - entanglement, evaluation weights, trust and interest are kept in    *)
(*     hundredths (0.1 -> 10, 0.05 -> 5, 1 -> 100),                        *)
(*     in exact arithmetic: the rounding of IEEE doubles is not modelled   *)
(*   - an event's id (a fresh uuid in the code) is its sequence number     *)
(*   - timestamps and the opaque meta bag are left out of events           *)
(*   - a content string is a TLA+ string; Chars gives its characters       *)
(*   - null is Null among strings, NoEvent among sequence numbers and      *)
(*     NoTopic among topics                                                *)
(*                                                                         *)
(* Specifications (all start from the constructor's state)                 *)
(*   Spec           any of three inhabitants enters, leaves, writes        *)
(*   SpecHandlers   subscribers, emit() and reentrant processMessage       *)
(*   SpecClassify   contents with and without topics                       *)
(*   SpecDirect     two inhabitants writing to each other, to saturation   *)
(*   SpecBroadcast  broadcasts while inhabitants come and go               *)
(*   SpecState      getState() snapshots between the calls                 *)
(*   SpecAgent      an agent deciding on messages of every kind            *)
(*   SpecMemory     an agent addressed until its experience log compacts   *)
(*   SpecTopics     an agent hearing topics until its topic window rolls   *)
(*   SpecOrch       the server: agents, a human, timers and the tick loop  *)
(*   SpecOrchFair   the same, every scheduled timer eventually firing      *)
(*   SpecRace       the server while a human writes twice to an agent      *)
(*   SpecSocket     the server and one socket, from connection to its end  *)
(*   SpecTwin       the server's World and the browser's on the same calls  *)
(***************************************************************************)
EXTENDS Integers, Sequences, FiniteSets, TLC

VARIABLES
  memory,           \* this.memory: the event log
  sequenceCounter,  \* this.sequenceCounter
  inhabitants,      \* this.inhabitants: the keys of the Map (ids now active)
  relationships,    \* this.relationships: id -> (otherId -> edge)
  listeners,        \* this.listeners: event name -> sequence of callbacks
  stack,            \* emit() calls in progress, innermost last
  delivered,        \* handler invocations so far: [h, ev, seq], in order
  lastOp,           \* the most recent call of the API and its return value
  agents,           \* the Agent objects: agent id -> its fields
  timers,           \* the server's setTimeout callbacks, in scheduling order:
                    \* [agent, message, fired]
  browser           \* a World of the browser build run beside the server's:
                    \* its fields and the result of its last call

\* the state outside the World object
agentVars == <<agents, timers, browser>>

vars == <<memory, sequenceCounter, inhabitants, relationships, listeners,
          stack, delivered, lastOp, agents, timers, browser>>

-----------------------------------------------------------------------------
(* Bounds of the model *)

\* longest event log explored by Spec
MaxEvents == 4
\* longest event log explored by SpecHandlers
MaxHandlerEvents == 4
\* longest event log explored by SpecClassify
MaxClassifyEvents == 5
\* longest event log explored by SpecBroadcast
MaxBroadcastEvents == 6
\* longest event log explored by SpecDirect (two inhabitants, direct messages)
MaxDirectEvents == 14
\* callbacks ever registered with on()
MaxHandlers == 2
\* emit() calls nested in each other
MaxDepth == 2
\* events recorded in the run that takes getState() snapshots
MaxStateEvents == 4
\* events recorded in the run in which an agent decides on every message
MaxAgentEvents == 4
\* events recorded in the run that fills an agent's experience log
MaxMemoryEvents == 118
\* events of that run among which messages not addressed to the agent occur
MaxMixedEvents == 5
\* events recorded in the run that fills an agent's conversation topics
MaxTopicEvents == 26
\* events of that run among which the messages vary freely
MaxTopicMixed == 3
\* events after which nobody acts on the server unprompted; an agent may
\* still answer when the world holds exactly that many
MaxOrchEvents == 4
\* events after which the human of the two-message run writes no more
MaxRaceEvents == 5
\* events after which the socket sends nothing but its disconnect
MaxSocketEvents == 5
\* events recorded while the two builds of the World run side by side
MaxTwinEvents == 4

-----------------------------------------------------------------------------
(* Program constants *)

RecentWindow == 20        \* getRecentMessages(20) in classifyExchange
TopicMinLen == 4          \* w.length > 4 in extractTopic
BroadcastThreshold == 2   \* rel.interactions > 2 (broadcast)
DirectThreshold == 1      \* rel.interactions > 1 (direct)
EntDirect == 10           \* + 0.1, in hundredths
EntReciprocal == 5        \* + 0.05, in hundredths
EntCap == 100             \* Math.min(1, ...), in hundredths

-----------------------------------------------------------------------------
(* Values *)

Null == "null"
\* null where the other values are sequence numbers (a return value, an
\* edge's lastInteraction, a replyTo)
NoEvent == 0
WORLD == "world"
Ids == {"a", "b", "c"}
EventNames == {"inhabitant:enter", "inhabitant:leave", "message"}

\* inhabitant.name and inhabitant.kind: fixed at construction of the inhabitant
\* (b and d are the HumanInhabitant objects one socket makes)
NameOf(id) ==
  CASE id = "a" -> "Vera" [] id \in {"b", "d"} -> "Bob" [] OTHER -> "Kai"
KindOf(id) == IF id \in {"b", "d"} THEN "human" ELSE "agent"

Min(x, y) == IF x <= y THEN x ELSE y

\* the characters of the content strings the model sends
Chars(content) ==
  CASE content = "Biology is fascinating" ->
         <<"B","i","o","l","o","g","y"," ","i","s"," ",
           "f","a","s","c","i","n","a","t","i","n","g">>
    [] content = "more biology" ->
         <<"m","o","r","e"," ","b","i","o","l","o","g","y">>
    [] content = " Physics  rules" ->
         <<" ","P","h","y","s","i","c","s"," "," ","r","u","l","e","s">>
    [] content = "hi all" -> <<"h","i"," ","a","l","l">>
    [] content = "What is Truth?" ->
         <<"W","h","a","t"," ","i","s"," ","T","r","u","t","h","?">>
    [] content = "truth and belief" ->
         <<"t","r","u","t","h"," ","a","n","d"," ","b","e","l","i","e","f">>
    [] content = "There's something to that. Let me build on it a bit." ->
         <<"T","h","e","r","e","'","s"," ","s","o","m","e","t","h",
           "i","n","g"," ","t","o"," ","t","h","a","t","."," ","L",
           "e","t"," ","m","e"," ","b","u","i","l","d"," ","o","n",
           " ","i","t"," ","a"," ","b","i","t",".">>
    [] content = "I've been thinking about something." ->
         <<"I","'","v","e"," ","b","e","e","n"," ","t","h","i","n",
           "k","i","n","g"," ","a","b","o","u","t"," ","s","o","m",
           "e","t","h","i","n","g",".">>
    [] content = "knowledge" ->
         <<"k","n","o","w","l","e","d","g","e">>
    [] content = "truth" ->
         <<"t","r","u","t","h">>
    [] content = "certainty" ->
         <<"c","e","r","t","a","i","n","t","y">>
    [] content = "evidence" ->
         <<"e","v","i","d","e","n","c","e">>
    [] content = "belief" ->
         <<"b","e","l","i","e","f">>
    [] content = "power" ->
         <<"p","o","w","e","r">>
    [] content = "structure" ->
         <<"s","t","r","u","c","t","u","r","e">>
    [] content = "system" ->
         <<"s","y","s","t","e","m">>
    [] content = "pattern" ->
         <<"p","a","t","t","e","r","n">>
    [] content = "incentive" ->
         <<"i","n","c","e","n","t","i","v","e">>
    [] OTHER -> <<>>

\* String.prototype.toLowerCase on one character
Lower(ch) ==
  CASE ch = "B" -> "b"
    [] ch = "P" -> "p"
    [] ch = "T" -> "t"
    [] ch = "W" -> "w"
    [] ch = "I" -> "i"
    [] ch = "L" -> "l"
    [] OTHER -> ch

IsSpace(ch) == ch = " "

\* s.split(/\s+/): the pieces between maximal runs of whitespace; a leading
\* or trailing run yields an empty first or last piece, as in JavaScript
RECURSIVE SplitFrom(_, _, _, _, _)
SplitFrom(s, i, cur, acc, inWs) ==
  IF i > Len(s) THEN Append(acc, cur)
  ELSE IF IsSpace(s[i])
       THEN IF inWs THEN SplitFrom(s, i + 1, cur, acc, TRUE)
            ELSE SplitFrom(s, i + 1, <<>>, Append(acc, cur), TRUE)
       ELSE SplitFrom(s, i + 1, Append(cur, s[i]), acc, FALSE)

Split(s) == SplitFrom(s, 1, <<>>, <<>>, FALSE)

ToLowerCase(s) == [i \in 1..Len(s) |-> Lower(s[i])]

\* the null of extractTopic: a topic is a word, a sequence of characters,
\* and never an empty one
NoTopic == <<>>

\* extractTopic(content): first word longer than 4 characters, or null
extractTopic(content) ==
  IF content = Null \/ Chars(content) = <<>> THEN NoTopic
  ELSE LET LongWord(w) == Len(w) > TopicMinLen
           words == SelectSeq(Split(ToLowerCase(Chars(content))), LongWord)
       IN IF words = <<>> THEN NoTopic ELSE words[1]

\* Array.prototype.slice(-count)
LastN(s, count) ==
  IF Len(s) <= count THEN s ELSE SubSeq(s, Len(s) - count + 1, Len(s))

\* getRecentMessages(count) on a log
getRecentMessages(mem, count) ==
  LET IsMessage(e) == e.type = "message"
  IN LastN(SelectSeq(mem, IsMessage), count)

\* the Set of truthy topics of a sequence of messages
TopicsOf(msgs) ==
  {extractTopic(msgs[i].content) : i \in 1..Len(msgs)} \ {NoTopic}

\* classifyExchange without the truthiness test of currentTopic
classifyExchange_NoTopicTest(mem, message) ==
  LET recentTopics == TopicsOf(getRecentMessages(mem, RecentWindow))
      currentTopic == extractTopic(message.content)
  IN IF currentTopic \notin recentTopics THEN "fork" ELSE "perturbation"

\* classifyExchange(message), evaluated on the log it reads: processMessage
\* calls it after recordEvent has pushed the message
classifyExchange(mem, message) ==
  LET recentTopics == TopicsOf(getRecentMessages(mem, RecentWindow))
      currentTopic == extractTopic(message.content)
  IN IF currentTopic # NoTopic /\ currentTopic \notin recentTopics
     THEN "fork" ELSE "perturbation"

\* recordEvent with `sequence: this.sequenceCounter++`: the counter is read
\* before it is incremented
NewEvent_PostIncrement(counter, data) ==
  [id |-> counter + 1, sequence |-> counter] @@ data

\* recordEvent(data): the event made by the counter's increment
NewEvent(counter, data) ==
  [id |-> counter + 1, sequence |-> counter + 1] @@ data

-----------------------------------------------------------------------------
(* The relationship graph *)

DefaultEdge ==
  [model |-> "default", entanglement |-> 0, interactions |-> 0,
   lastInteraction |-> NoEvent]

Has(rels, id) == id \in DOMAIN rels
HasEdge(rels, x, y) == Has(rels, x) /\ y \in DOMAIN rels[x]

\* Map.set(key, value) on a function
MapSet(f, k, v) == [x \in DOMAIN f \cup {k} |-> IF x = k THEN v ELSE f[x]]

EmptyMap == [x \in {} |-> Null]

\* enter() that forgets the reciprocal edge: only the newcomer's own map
\* is filled
EnterEdges_OneWay(rels, active, id) ==
  MapSet(rels, id, [o \in active \ {id} |-> DefaultEdge])

\* enter(): lines 54-76, with `active` the keys of this.inhabitants after
\* the newcomer was set
EnterEdges(rels, active, id) ==
  LET others == active \ {id}
      r1 == MapSet(rels, id, [o \in others |-> DefaultEdge])
  IN [x \in DOMAIN r1 |->
        IF x \in others THEN MapSet(r1[x], id, DefaultEdge) ELSE r1[x]]

\* the broadcast branch promoting at the direct branch's threshold
BroadcastTouch_DirectThreshold(rel, seq) ==
  LET n == rel.interactions + 1
  IN [rel EXCEPT !.interactions = n,
                 !.lastInteraction = seq,
                 !.model = IF n > DirectThreshold THEN "non-default" ELSE @]

\* a broadcast touch that counts the interaction and leaves the model as
\* it is
BroadcastTouch_NeverPromotes(rel, seq) ==
  [rel EXCEPT !.interactions = @ + 1, !.lastInteraction = seq]

\* the broadcast branch's update of one edge
BroadcastTouch(rel, seq) ==
  LET n == rel.interactions + 1
  IN [rel EXCEPT !.interactions = n,
                 !.lastInteraction = seq,
                 !.model = IF n > BroadcastThreshold THEN "non-default" ELSE @]

\* a direct touch that stores the amount in place of adding it
DirectTouch_Assign(rel, amount, seq) ==
  LET n == rel.interactions + 1
  IN [model |-> IF n > DirectThreshold THEN "non-default" ELSE rel.model,
      entanglement |-> Min(EntCap, amount),
      interactions |-> n,
      lastInteraction |-> seq]

\* the direct branch without Math.min(1, ...)
DirectTouch_NoCap(rel, amount, seq) ==
  LET n == rel.interactions + 1
  IN [rel EXCEPT !.interactions = n,
                 !.entanglement = @ + amount,
                 !.lastInteraction = seq,
                 !.model = IF n > DirectThreshold THEN "non-default" ELSE @]

\* the direct branch's update of one edge, by `amount` hundredths
DirectTouch(rel, amount, seq) ==
  LET n == rel.interactions + 1
  IN [rel EXCEPT !.interactions = n,
                 !.entanglement = Min(EntCap, @ + amount),
                 !.lastInteraction = seq,
                 !.model = IF n > DirectThreshold THEN "non-default" ELSE @]

\* updateRelationship whose direct branch creates the sender's edge to the
\* recipient when there is none
updateRelationship_Lazy(rels, active, fromId, toId, seq) ==
  IF toId = WORLD
  THEN IF Has(rels, fromId)
       THEN [rels EXCEPT ![fromId] =
               [o \in DOMAIN @ |->
                  IF o \in active /\ o # fromId
                  THEN BroadcastTouch(@[o], seq) ELSE @[o]]]
       ELSE rels
  ELSE LET r1 == IF Has(rels, fromId)
                 THEN [rels EXCEPT ![fromId] =
                         MapSet(@, toId,
                           DirectTouch(IF toId \in DOMAIN @ THEN @[toId]
                                       ELSE DefaultEdge,
                                       EntDirect, seq))]
                 ELSE rels
       IN IF HasEdge(r1, toId, fromId)
          THEN [r1 EXCEPT ![toId][fromId] = DirectTouch(@, EntReciprocal, seq)]
          ELSE r1

\* updateRelationship whose broadcast branch loops over the sender's edges
\* instead of over this.inhabitants
updateRelationship_AllEdges(rels, active, fromId, toId, seq) ==
  IF toId = WORLD
  THEN IF Has(rels, fromId)
       THEN [rels EXCEPT ![fromId] =
               [o \in DOMAIN @ |-> BroadcastTouch(@[o], seq)]]
       ELSE rels
  ELSE LET r1 == IF HasEdge(rels, fromId, toId)
                 THEN [rels EXCEPT ![fromId][toId] =
                         DirectTouch(@, EntDirect, seq)]
                 ELSE rels
       IN IF HasEdge(r1, toId, fromId)
          THEN [r1 EXCEPT ![toId][fromId] = DirectTouch(@, EntReciprocal, seq)]
          ELSE r1

\* updateRelationship(fromId, toId, message)
updateRelationship(rels, active, fromId, toId, seq) ==
  IF toId = WORLD
  THEN IF Has(rels, fromId)
       THEN [rels EXCEPT ![fromId] =
               [o \in DOMAIN @ |->
                  IF o \in active /\ o # fromId
                  THEN BroadcastTouch(@[o], seq) ELSE @[o]]]
       ELSE rels
  ELSE LET r1 == IF HasEdge(rels, fromId, toId)
                 THEN [rels EXCEPT ![fromId][toId] =
                         DirectTouch(@, EntDirect, seq)]
                 ELSE rels
       IN IF HasEdge(r1, toId, fromId)
          THEN [r1 EXCEPT ![toId][fromId] = DirectTouch(@, EntReciprocal, seq)]
          ELSE r1

-----------------------------------------------------------------------------
(* emit(): the fan-out in progress *)

\* an emit() whose loop starts at the second handler
Frame_FromSecond(ev, seq) ==
  [ev |-> ev, seq |-> seq, next |-> 2, running |-> FALSE]

Frame(ev, seq) == [ev |-> ev, seq |-> seq, next |-> 1, running |-> FALSE]

\* drop the emit() calls whose loop over the handlers has ended
RECURSIVE Unwind(_, _)
Unwind(stk, lst) ==
  IF stk = <<>> THEN stk
  ELSE LET top == stk[Len(stk)]
       IN IF ~top.running /\ top.next > Len(lst[top.ev])
          THEN Unwind(SubSeq(stk, 1, Len(stk) - 1), lst)
          ELSE stk

\* this.emit(event, data) called with stk the calls already in progress
Emit(stk, ev, seq) == Unwind(Append(stk, Frame(ev, seq)), listeners)

Call(op, id, to, content, ret) ==
  [op |-> op, id |-> id, to |-> to, content |-> content, ret |-> ret,
   depth |-> Len(stack)]

-----------------------------------------------------------------------------
(* Agents *)

\* weights of evaluate(), in hundredths
EvalDirect == 60          \* message.to === this.id
EvalWorld == 20           \* message.to === 'world'
EvalInterest == 30        \* an interest occurs in the content
EvalTrust == 15           \* model.trust > 0.5
EvalQuestion == 15        \* the content has a '?'
EvalMax == 100            \* Math.min(1, Math.max(-1, weight))
TrustBonusAbove == 50     \* model.trust > 0.5
\* updateModel(), in hundredths
TrustInitial == 50
TrustStep == 2
TrustCap == 100
InterestInitial == 50
InterestStep == 10
InterestCap == 100
TerseBelow == 30          \* content.length < 30
VerboseAbove == 200       \* content.length > 200
\* integrateExperience()
SalienceThreshold == 30   \* evaluation > 0.3
ExperienceCap == 100      \* experienceLog.length > 100
Formative == 10           \* slice(0, 10)
Recent == 80              \* slice(-80)
TopicsCap == 20           \* conversationTopics.slice(-20)
ConvTopicMinLen == 5      \* w.length > 5
SummaryMax == 80          \* content.length <= 80
SummaryKeep == 77         \* content.substring(0, 77) + '...'
\* shouldRespond(): 0.5, 0.05 and 0.3 in units of one ten-thousandth per
\* hundredth of evaluation, per tick, and as the cap
EvalShare == 50
TickShare == 500
SilenceCap == 3000

\* the inhabitants that are Agent objects
AgentIds == {id \in Ids : KindOf(id) = "agent"}

\* the interests and the engagement createDefaultAgents() gives them
Interests(g) ==
  IF g = "a"
  THEN <<"knowledge", "truth", "certainty", "evidence", "belief">>
  ELSE <<"power", "structure", "system", "pattern", "incentive">>

Engagement(g) == IF g = "a" THEN 70 ELSE 60

\* the fields of a new Agent that later code writes
NewAgent ==
  [evaluations |-> [m \in {} |-> 0],
   models |-> EmptyMap,
   experienceLog |-> <<>>,
   conversationTopics |-> <<>>,
   silenceTicks |-> 0]

Max(x, y) == IF x >= y THEN x ELSE y

\* (content || ''): the characters of a content that may be absent
ContentChars(content) == IF content = Null THEN <<>> ELSE Chars(content)

\* String.prototype.includes
Includes(s, sub) ==
  \E i \in 0..(Len(s) - Len(sub)) : SubSeq(s, i + 1, i + Len(sub)) = sub

\* the interests of g that occur in the lowercased content
Matching(g, content) ==
  {k \in 1..Len(Interests(g)) :
     Includes(content, ToLowerCase(Chars(Interests(g)[k])))}

\* evaluate() without the final clamp
evaluate_NoClamp(agent, g, message) ==
  LET content == ToLowerCase(ContentChars(message.content))
  IN (IF message.to = g THEN EvalDirect
      ELSE IF message.to = WORLD THEN EvalWorld ELSE 0)
     + (IF Matching(g, content) # {} THEN EvalInterest ELSE 0)
     + (IF /\ message.from \in DOMAIN agent.models
           /\ agent.models[message.from].trust > TrustBonusAbove
        THEN EvalTrust ELSE 0)
     + (IF Includes(content, <<"?">>) THEN EvalQuestion ELSE 0)

\* evaluate() whose loop over the interests has no `break`
evaluate_EachInterest(agent, g, message) ==
  LET content == ToLowerCase(ContentChars(message.content))
      weight ==
        (IF message.to = g THEN EvalDirect
         ELSE IF message.to = WORLD THEN EvalWorld ELSE 0)
        + EvalInterest * Cardinality(Matching(g, content))
        + (IF /\ message.from \in DOMAIN agent.models
              /\ agent.models[message.from].trust > TrustBonusAbove
           THEN EvalTrust ELSE 0)
        + (IF Includes(content, <<"?">>) THEN EvalQuestion ELSE 0)
  IN Min(EvalMax, Max(0 - EvalMax, weight))

\* the weight evaluate(message) returns for agent g with fields `agent`
evaluate(agent, g, message) ==
  LET content == ToLowerCase(ContentChars(message.content))
      weight ==
        (IF message.to = g THEN EvalDirect
         ELSE IF message.to = WORLD THEN EvalWorld ELSE 0)
        + (IF Matching(g, content) # {} THEN EvalInterest ELSE 0)
        + (IF /\ message.from \in DOMAIN agent.models
              /\ agent.models[message.from].trust > TrustBonusAbove
           THEN EvalTrust ELSE 0)
        + (IF Includes(content, <<"?">>) THEN EvalQuestion ELSE 0)
  IN Min(EvalMax, Max(0 - EvalMax, weight))

\* a first-contact model that already counts the message
NewModel_Counted(message) ==
  [name |-> message.fromName,
   style |-> "unknown",
   trust |-> TrustInitial,
   messageCount |-> 1,
   theirModelOfMe |-> [trust |-> TrustInitial, interest |-> InterestInitial]]

\* the model updateModel() creates on first contact; beliefs, predictedValues
\* and lastSeen, which nothing reads, are left out
NewModel(message) ==
  [name |-> message.fromName,
   style |-> "unknown",
   trust |-> TrustInitial,
   messageCount |-> 0,
   theirModelOfMe |-> [trust |-> TrustInitial, interest |-> InterestInitial]]

\* the style updateModel() infers from one message
StyleOf(content, style) ==
  IF Includes(content, <<"?">>) THEN "inquisitive"
  ELSE IF Len(content) > VerboseAbove THEN "verbose"
  ELSE IF Len(content) < TerseBelow THEN "terse"
  ELSE style

\* updateModel() without Math.min(1, ...) on trust
updateModel_NoCap(agent, g, inhabitantId, message) ==
  LET old == IF inhabitantId \in DOMAIN agent.models
             THEN agent.models[inhabitantId] ELSE NewModel(message)
      new == [old EXCEPT
                !.messageCount = @ + 1,
                !.style = StyleOf(ContentChars(message.content), @),
                !.trust = @ + TrustStep,
                !.theirModelOfMe.interest =
                   IF message.to = g THEN Min(InterestCap, @ + InterestStep)
                   ELSE @]
  IN [agent EXCEPT !.models = MapSet(@, inhabitantId, new)]

\* updateModel() raising theirModelOfMe.interest on every message
updateModel_InterestAlways(agent, g, inhabitantId, message) ==
  LET old == IF inhabitantId \in DOMAIN agent.models
             THEN agent.models[inhabitantId] ELSE NewModel(message)
      new == [old EXCEPT
                !.messageCount = @ + 1,
                !.style = StyleOf(ContentChars(message.content), @),
                !.trust = Min(TrustCap, @ + TrustStep),
                !.theirModelOfMe.interest = Min(InterestCap, @ + InterestStep)]
  IN [agent EXCEPT !.models = MapSet(@, inhabitantId, new)]

\* updateModel(inhabitantId, message) of agent g
updateModel(agent, g, inhabitantId, message) ==
  LET old == IF inhabitantId \in DOMAIN agent.models
             THEN agent.models[inhabitantId] ELSE NewModel(message)
      new == [old EXCEPT
                !.messageCount = @ + 1,
                !.style = StyleOf(ContentChars(message.content), @),
                !.trust = Min(TrustCap, @ + TrustStep),
                !.theirModelOfMe.interest =
                   IF message.to = g THEN Min(InterestCap, @ + InterestStep)
                   ELSE @]
  IN [agent EXCEPT !.models = MapSet(@, inhabitantId, new)]

\* summarize(content), as characters
summarize(content) ==
  LET cs == ContentChars(content)
  IN IF Len(cs) <= SummaryMax THEN cs
     ELSE SubSeq(cs, 1, SummaryKeep) \o <<".", ".", ".">>

\* extractConversationTopic(content): first word longer than 5 characters
extractConversationTopic(content) ==
  IF content = Null \/ Chars(content) = <<>> THEN NoTopic
  ELSE LET LongWord(w) == Len(w) > ConvTopicMinLen
           words == SelectSeq(Split(ToLowerCase(Chars(content))), LongWord)
       IN IF words = <<>> THEN NoTopic ELSE words[1]

\* the record integrateExperience() pushes
Experience(message, evaluation) ==
  [sequence |-> message.sequence,
   from |-> message.from,
   fromName |-> message.fromName,
   summary |-> summarize(message.content),
   evaluation |-> evaluation]

\* integrateExperience() keeping the last 10 entries after the first 10
integrateExperience_LastTen(agent, message, evaluation) ==
  LET pushed == IF evaluation > SalienceThreshold
                THEN Append(agent.experienceLog,
                            Experience(message, evaluation))
                ELSE agent.experienceLog
      kept == IF Len(pushed) > ExperienceCap
              THEN SubSeq(pushed, 1, Formative) \o LastN(pushed, Formative)
              ELSE pushed
      topic == extractConversationTopic(message.content)
      topics == IF topic # NoTopic
                THEN LastN(Append(agent.conversationTopics, topic), TopicsCap)
                ELSE agent.conversationTopics
  IN [agent EXCEPT !.experienceLog = kept, !.conversationTopics = topics]

\* integrateExperience() keeping only the most recent entries
integrateExperience_RecentOnly(agent, message, evaluation) ==
  LET pushed == IF evaluation > SalienceThreshold
                THEN Append(agent.experienceLog,
                            Experience(message, evaluation))
                ELSE agent.experienceLog
      kept == IF Len(pushed) > ExperienceCap
              THEN LastN(pushed, Formative + Recent)
              ELSE pushed
      topic == extractConversationTopic(message.content)
      topics == IF topic # NoTopic
                THEN LastN(Append(agent.conversationTopics, topic), TopicsCap)
                ELSE agent.conversationTopics
  IN [agent EXCEPT !.experienceLog = kept, !.conversationTopics = topics]

\* integrateExperience() that also keeps an evaluation of exactly 0.3
integrateExperience_AtLeast(agent, message, evaluation) ==
  LET pushed == IF evaluation >= SalienceThreshold
                THEN Append(agent.experienceLog,
                            Experience(message, evaluation))
                ELSE agent.experienceLog
      kept == IF Len(pushed) > ExperienceCap
              THEN SubSeq(pushed, 1, Formative) \o LastN(pushed, Recent)
              ELSE pushed
      topic == extractConversationTopic(message.content)
      topics == IF topic # NoTopic
                THEN LastN(Append(agent.conversationTopics, topic), TopicsCap)
                ELSE agent.conversationTopics
  IN [agent EXCEPT !.experienceLog = kept, !.conversationTopics = topics]

\* integrateExperience(message, evaluation)
integrateExperience(agent, message, evaluation) ==
  LET pushed == IF evaluation > SalienceThreshold
                THEN Append(agent.experienceLog,
                            Experience(message, evaluation))
                ELSE agent.experienceLog
      kept == IF Len(pushed) > ExperienceCap
              THEN SubSeq(pushed, 1, Formative) \o LastN(pushed, Recent)
              ELSE pushed
      topic == extractConversationTopic(message.content)
      topics == IF topic # NoTopic
                THEN LastN(Append(agent.conversationTopics, topic), TopicsCap)
                ELSE agent.conversationTopics
  IN [agent EXCEPT !.experienceLog = kept, !.conversationTopics = topics]

\* Math.log2(n) in thousandths, rounded, for the head counts of the model
Log2Milli(n) ==
  CASE n = 2 -> 1000
    [] n = 3 -> 1585
    [] n = 4 -> 2000
    [] OTHER -> 2322

\* the values Math.random() takes in the model, in millionths
Draws == {0, 999999}

\* responseProbability of shouldRespond(), in millionths
responseProbability(evaluation, silenceTicks, inhabitantCount, engagement) ==
  ((evaluation * EvalShare + Min(SilenceCap, silenceTicks * TickShare))
     * 1000 * engagement) \div Log2Milli(inhabitantCount + 1)

\* shouldRespond() that tests for an own message first
shouldRespond_OwnFirst(agent, g, message, evaluation, worldState, draw) ==
  IF message.from = g THEN FALSE
  ELSE IF message.to = g THEN TRUE
  ELSE draw < responseProbability(evaluation, agent.silenceTicks,
                IF worldState.inhabitantCount = 0 THEN 1
                ELSE worldState.inhabitantCount,
                Engagement(g))

\* shouldRespond(message, evaluation, worldState) with Math.random() = draw
shouldRespond(agent, g, message, evaluation, worldState, draw) ==
  IF message.to = g THEN TRUE
  ELSE IF message.from = g THEN FALSE
  ELSE draw < responseProbability(evaluation, agent.silenceTicks,
                IF worldState.inhabitantCount = 0 THEN 1
                ELSE worldState.inhabitantCount,
                Engagement(g))

\* the null decideAndRespond() returns when the agent stays silent
NoResponse ==
  [from |-> Null, to |-> Null, content |-> Null, replyTo |-> NoEvent]

\* what craftResponse() returns: one of the agent's template strings, none
\* of which the model tells apart
CraftedResponse == "There's something to that. Let me build on it a bit."

\* generateResponse() that names the event after the message as replied to
generateResponse_ReplyNext(g, message) ==
  [from |-> g,
   to |-> IF message.to = g THEN message.from ELSE WORLD,
   content |-> CraftedResponse,
   replyTo |-> message.id + 1]

\* generateResponse() that always answers the sender
generateResponse_ToSender(g, message) ==
  [from |-> g,
   to |-> message.from,
   content |-> CraftedResponse,
   replyTo |-> message.id]

\* generateResponse(message, worldState), without its meta bag
generateResponse(g, message) ==
  [from |-> g,
   to |-> IF message.to = g THEN message.from ELSE WORLD,
   content |-> CraftedResponse,
   replyTo |-> message.id]

\* decideAndRespond() that updates the model of the sender before it
\* evaluates the message
decideAndRespond_ModelFirst(agent, g, message, worldState, draw) ==
  LET modelled == IF message.from # g
                  THEN updateModel(agent, g, message.from, message)
                  ELSE agent
      evaluation == evaluate(modelled, g, message)
      cached == [modelled EXCEPT
                   !.evaluations = MapSet(@, message.id, evaluation)]
      remembered == integrateExperience(cached, message, evaluation)
      should == shouldRespond(remembered, g, message, evaluation, worldState,
                              draw)
  IN [agent |-> [remembered EXCEPT
                   !.silenceTicks = IF should THEN 0 ELSE @ + 1],
      evaluation |-> evaluation,
      should |-> should,
      response |-> IF should THEN generateResponse(g, message)
                   ELSE NoResponse]

\* decideAndRespond() that counts a tick on every call and never resets
decideAndRespond_NoReset(agent, g, message, worldState, draw) ==
  LET evaluation == evaluate(agent, g, message)
      cached == [agent EXCEPT
                   !.evaluations = MapSet(@, message.id, evaluation)]
      modelled == IF message.from # g
                  THEN updateModel(cached, g, message.from, message)
                  ELSE cached
      remembered == integrateExperience(modelled, message, evaluation)
      should == shouldRespond(remembered, g, message, evaluation, worldState,
                              draw)
  IN [agent |-> [remembered EXCEPT !.silenceTicks = @ + 1],
      evaluation |-> evaluation,
      should |-> should,
      response |-> IF should THEN generateResponse(g, message)
                   ELSE NoResponse]

\* decideAndRespond() without the `message.from !== this.id` test
decideAndRespond_ModelsSelf(agent, g, message, worldState, draw) ==
  LET evaluation == evaluate(agent, g, message)
      cached == [agent EXCEPT
                   !.evaluations = MapSet(@, message.id, evaluation)]
      modelled == updateModel(cached, g, message.from, message)
      remembered == integrateExperience(modelled, message, evaluation)
      should == shouldRespond(remembered, g, message, evaluation, worldState,
                              draw)
  IN [agent |-> [remembered EXCEPT
                   !.silenceTicks = IF should THEN 0 ELSE @ + 1],
      evaluation |-> evaluation,
      should |-> should,
      response |-> IF should THEN generateResponse(g, message)
                   ELSE NoResponse]

\* decideAndRespond(message, worldState): the agent's fields afterwards and
\* what the call computed and returned
decideAndRespond(agent, g, message, worldState, draw) ==
  LET evaluation == evaluate(agent, g, message)
      cached == [agent EXCEPT
                   !.evaluations = MapSet(@, message.id, evaluation)]
      modelled == IF message.from # g
                  THEN updateModel(cached, g, message.from, message)
                  ELSE cached
      remembered == integrateExperience(modelled, message, evaluation)
      should == shouldRespond(remembered, g, message, evaluation, worldState,
                              draw)
  IN [agent |-> [remembered EXCEPT
                   !.silenceTicks = IF should THEN 0 ELSE @ + 1],
      evaluation |-> evaluation,
      should |-> should,
      response |-> IF should THEN generateResponse(g, message)
                   ELSE NoResponse]

-----------------------------------------------------------------------------
(* The World of the browser build (dist/js/world.js) *)

\* new World() of the browser build, and the module's idCounter
NewBrowserWorld ==
  [memory |-> <<>>, sequenceCounter |-> 0, idCounter |-> 0,
   inhabitants |-> {}, relationships |-> EmptyMap, ret |-> NoEvent]

\* recordEvent(data) of the browser build: the event it pushes; its id comes
\* from generateId(), 'evt_' and a counter
browserEvent(w, data) ==
  [id |-> <<"evt", w.idCounter + 1>>, sequence |-> w.sequenceCounter + 1]
    @@ data

\* the fields after recordEvent pushed event
browserRecorded(w, event) ==
  [w EXCEPT !.memory = Append(@, event),
            !.sequenceCounter = @ + 1,
            !.idCounter = @ + 1,
            !.ret = event.sequence]

\* enter(inhabitant) of the browser build
browserEnter(w, id) ==
  LET active == w.inhabitants \cup {id}
      own == [o \in active \ {id} |-> DefaultEdge]
      rels == [x \in DOMAIN w.relationships \cup {id} |->
                 IF x = id THEN own
                 ELSE IF x \in active
                      THEN MapSet(w.relationships[x], id, DefaultEdge)
                      ELSE w.relationships[x]]
      event == browserEvent(w, [type |-> "enter", inhabitantId |-> id,
                                inhabitantName |-> NameOf(id),
                                inhabitantKind |-> KindOf(id)])
  IN [browserRecorded(w, event) EXCEPT !.inhabitants = active,
                                       !.relationships = rels]

\* leave(inhabitantId) of the browser build
browserLeave(w, id) ==
  IF id \notin w.inhabitants THEN [w EXCEPT !.ret = NoEvent]
  ELSE LET event == browserEvent(w, [type |-> "leave", inhabitantId |-> id,
                                     inhabitantName |-> NameOf(id)])
       IN [browserRecorded(w, event) EXCEPT !.inhabitants = @ \ {id}]

\* one `rel.interactions++ ...` block of the browser's updateRelationship:
\* amount is what it adds to the entanglement and above the count over which
\* the model becomes non-default
browserTouch(rel, amount, above, seq) ==
  [model |-> IF rel.interactions + 1 > above THEN "non-default" ELSE rel.model,
   entanglement |-> Min(100, rel.entanglement + amount),
   interactions |-> rel.interactions + 1,
   lastInteraction |-> seq]

\* updateRelationship of a browser build that touches the recipient's edge
\* only while the recipient is in the world
browserUpdateRelationship_ActiveOnly(rels, active, fromId, toId, seq) ==
  IF toId = WORLD
  THEN [x \in DOMAIN rels |->
          IF x # fromId THEN rels[x]
          ELSE [o \in DOMAIN rels[x] |->
                  IF o \in active /\ o # fromId
                  THEN browserTouch(rels[x][o], 0, 2, seq) ELSE rels[x][o]]]
  ELSE LET sent == IF fromId \in DOMAIN rels /\ toId \in DOMAIN rels[fromId]
                   THEN [rels EXCEPT ![fromId][toId] =
                           browserTouch(@, 10, 1, seq)]
                   ELSE rels
       IN IF /\ toId \in active
             /\ toId \in DOMAIN sent
             /\ fromId \in DOMAIN sent[toId]
          THEN [sent EXCEPT ![toId][fromId] = browserTouch(@, 5, 1, seq)]
          ELSE sent

\* updateRelationship(fromId, toId, message) of the browser build
browserUpdateRelationship(rels, active, fromId, toId, seq) ==
  IF toId = WORLD
  THEN [x \in DOMAIN rels |->
          IF x # fromId THEN rels[x]
          ELSE [o \in DOMAIN rels[x] |->
                  IF o \in active /\ o # fromId
                  THEN browserTouch(rels[x][o], 0, 2, seq) ELSE rels[x][o]]]
  ELSE LET sent == IF fromId \in DOMAIN rels /\ toId \in DOMAIN rels[fromId]
                   THEN [rels EXCEPT ![fromId][toId] =
                           browserTouch(@, 10, 1, seq)]
                   ELSE rels
       IN IF toId \in DOMAIN sent /\ fromId \in DOMAIN sent[toId]
          THEN [sent EXCEPT ![toId][fromId] = browserTouch(@, 5, 1, seq)]
          ELSE sent

\* `(content || '').toLowerCase().split(/\s+/).filter(w => w.length > 4)`
\* and `w[0] || null` of the browser's classifyExchange
browserTopic(content) ==
  LET text == IF content = Null \/ content = "" THEN <<>> ELSE Chars(content)
      w == SelectSeq(Split(ToLowerCase(text)), LAMBDA x : Len(x) > 4)
  IN IF w = <<>> THEN NoTopic ELSE w[1]

\* classifyExchange(message) of the browser build on the log mem, which
\* holds the message already
browserClassifyExchange(mem, message) ==
  LET messages == SelectSeq(mem, LAMBDA e : e.type = "message")
      recent == IF Len(messages) <= 20 THEN messages
                ELSE SubSeq(messages, Len(messages) - 19, Len(messages))
      topics == {browserTopic(recent[i].content) : i \in 1..Len(recent)}
                  \ {NoTopic}
      current == browserTopic(message.content)
  IN IF current # NoTopic /\ current \notin topics
     THEN "fork" ELSE "perturbation"

\* processMessage({from, to, content, replyTo}) of the browser build
browserProcessMessage(w, from, to, content, replyTo) ==
  IF from \notin w.inhabitants THEN [w EXCEPT !.ret = NoEvent]
  ELSE LET message == browserEvent(w, [type |-> "message", from |-> from,
                                       fromName |-> NameOf(from), to |-> to,
                                       content |-> content,
                                       replyTo |-> replyTo])
           pushed == browserRecorded(w, message)
           rels == browserUpdateRelationship(w.relationships, w.inhabitants,
                                             from, to, message.sequence)
           class == browserClassifyExchange(pushed.memory, message)
       IN [pushed EXCEPT
             !.memory = [@ EXCEPT ![Len(@)] =
                           message @@ [classification |-> class]],
             !.relationships = rels]

-----------------------------------------------------------------------------
(* Operations *)

Init ==
  /\ memory = <<>>
  /\ sequenceCounter = 0
  /\ inhabitants = {}
  /\ relationships = EmptyMap
  /\ listeners = [ev \in EventNames |-> <<>>]
  /\ stack = <<>>
  /\ delivered = <<>>
  /\ lastOp = [op |-> "new", id |-> Null, to |-> Null, content |-> Null,
               ret |-> NoEvent, depth |-> 0]
  /\ agents = [g \in AgentIds |-> NewAgent]
  /\ timers = <<>>
  /\ browser = NewBrowserWorld

\* on(event, callback): callback h is appended to the event's handlers
On(ev, h) ==
  /\ stack = <<>>
  /\ listeners' = [listeners EXCEPT ![ev] = Append(@, h)]
  /\ lastOp' = Call("on", Null, Null, Null, NoEvent)
  /\ UNCHANGED <<memory, sequenceCounter, inhabitants, relationships, stack,
                 delivered>>
  /\ UNCHANGED agentVars

\* leave() testing this.relationships.has(id): true of whoever once entered
leaverActive_EverEntered(id) == id \in DOMAIN relationships

\* processMessage() testing this.relationships.has(from)
senderActive_EverEntered(from) == from \in DOMAIN relationships

\* `if (!inhabitant) return null` of leave(): the id is a key of this.inhabitants
leaverActive(id) == id \in inhabitants

\* `if (!sender) return null` of processMessage(): from is a key of this.inhabitants
senderActive(from) == from \in inhabitants

\* enter(inhabitant), running on the emit() calls stk
DoEnter(stk, id) ==
  LET event == NewEvent(sequenceCounter,
                 [type |-> "enter", inhabitantId |-> id,
                  inhabitantName |-> NameOf(id), inhabitantKind |-> KindOf(id)])
  IN /\ inhabitants' = inhabitants \cup {id}
     /\ relationships' = EnterEdges(relationships, inhabitants \cup {id}, id)
     /\ sequenceCounter' = sequenceCounter + 1
     /\ memory' = Append(memory, event)
     /\ stack' = Emit(stk, "inhabitant:enter", event.sequence)
     /\ lastOp' = Call("enter", id, Null, Null, event.sequence)
     /\ UNCHANGED listeners

\* leave() that also forgets the leaver's edges
\* (this.relationships.delete(inhabitantId))
DoLeave_DropEdges(stk, id) ==
  IF ~leaverActive(id)
  THEN /\ lastOp' = Call("leave", id, Null, Null, NoEvent)
       /\ stack' = Unwind(stk, listeners)
       /\ UNCHANGED <<memory, sequenceCounter, inhabitants, relationships,
                      listeners>>
  ELSE LET event == NewEvent(sequenceCounter,
                      [type |-> "leave", inhabitantId |-> id,
                       inhabitantName |-> NameOf(id)])
       IN /\ sequenceCounter' = sequenceCounter + 1
          /\ memory' = Append(memory, event)
          /\ inhabitants' = inhabitants \ {id}
          /\ relationships' =
               [x \in DOMAIN relationships \ {id} |-> relationships[x]]
          /\ stack' = Emit(stk, "inhabitant:leave", event.sequence)
          /\ lastOp' = Call("leave", id, Null, Null, event.sequence)
          /\ UNCHANGED listeners

\* leave(inhabitantId), running on the emit() calls stk
DoLeave(stk, id) ==
  IF ~leaverActive(id)
  THEN /\ lastOp' = Call("leave", id, Null, Null, NoEvent)
       /\ stack' = Unwind(stk, listeners)
       /\ UNCHANGED <<memory, sequenceCounter, inhabitants, relationships,
                      listeners>>
  ELSE LET event == NewEvent(sequenceCounter,
                      [type |-> "leave", inhabitantId |-> id,
                       inhabitantName |-> NameOf(id)])
       IN /\ sequenceCounter' = sequenceCounter + 1
          /\ memory' = Append(memory, event)
          /\ inhabitants' = inhabitants \ {id}
          /\ stack' = Emit(stk, "inhabitant:leave", event.sequence)
          /\ lastOp' = Call("leave", id, Null, Null, event.sequence)
          /\ UNCHANGED <<relationships, listeners>>

\* the fields of the world that processMessage() writes
Now ==
  [memory |-> memory, sequenceCounter |-> sequenceCounter,
   relationships |-> relationships, recorded |-> FALSE, ret |-> NoEvent]

\* what processMessage({from, to, content, replyTo}) does to those fields w,
\* whether it recorded the message and the sequence number it returns
PostMessage(w, from, to, content, replyTo) ==
  IF ~senderActive(from)
  THEN [w EXCEPT !.recorded = FALSE, !.ret = NoEvent]
  ELSE LET message == NewEvent(w.sequenceCounter,
                        [type |-> "message", from |-> from,
                         fromName |-> NameOf(from), to |-> to,
                         content |-> content, replyTo |-> replyTo])
           pushed == Append(w.memory, message)
           classified == message @@
                           [classification |-> classifyExchange(pushed, message)]
       IN [memory |-> Append(w.memory, classified),
           sequenceCounter |-> w.sequenceCounter + 1,
           relationships |-> updateRelationship(w.relationships, inhabitants,
                                                from, to, message.sequence),
           recorded |-> TRUE,
           ret |-> message.sequence]

\* processMessage({from, to, content, replyTo}), running on the emit() calls stk
DoProcessMessage(stk, from, to, content, replyTo) ==
  LET w == PostMessage(Now, from, to, content, replyTo)
  IN /\ memory' = w.memory
     /\ sequenceCounter' = w.sequenceCounter
     /\ relationships' = w.relationships
     /\ stack' = IF w.recorded THEN Emit(stk, "message", w.ret)
                 ELSE Unwind(stk, listeners)
     /\ lastOp' = Call("processMessage", from, to, content, w.ret)
     /\ UNCHANGED <<inhabitants, listeners>>

\* the three operations called from outside any handler
Enter(id) ==
  /\ stack = <<>>
  /\ DoEnter(stack, id)
  /\ UNCHANGED delivered
  /\ UNCHANGED agentVars

Leave(id) ==
  /\ stack = <<>>
  /\ DoLeave(stack, id)
  /\ UNCHANGED delivered
  /\ UNCHANGED agentVars

ProcessMessage(from, to, content) ==
  /\ stack = <<>>
  /\ DoProcessMessage(stack, from, to, content, NoEvent)
  /\ UNCHANGED delivered
  /\ UNCHANGED agentVars

\* emit()'s loop calls the next handler of the innermost fan-out
HandlerInvoke ==
  /\ stack # <<>>
  /\ LET top == stack[Len(stack)]
     IN /\ ~top.running
        /\ delivered' = Append(delivered,
                          [h |-> listeners[top.ev][top.next], ev |-> top.ev,
                           seq |-> top.seq])
        /\ stack' = [stack EXCEPT ![Len(stack)].running = TRUE]
  /\ UNCHANGED <<memory, sequenceCounter, inhabitants, relationships,
                 listeners, lastOp>>
  /\ UNCHANGED agentVars

\* the frames once the running handler has returned to emit()'s loop
Returned(stk) ==
  [stk EXCEPT ![Len(stk)] = [@ EXCEPT !.running = FALSE, !.next = @ + 1]]

\* the running handler returns without calling the world
HandlerReturn ==
  /\ stack # <<>>
  /\ stack[Len(stack)].running
  /\ stack' = Unwind(Returned(stack), listeners)
  /\ UNCHANGED <<memory, sequenceCounter, inhabitants, relationships,
                 listeners, delivered, lastOp>>
  /\ UNCHANGED agentVars

\* the running handler calls processMessage and returns when that call has
HandlerProcessMessage(from, to, content) ==
  /\ stack # <<>>
  /\ stack[Len(stack)].running
  /\ DoProcessMessage(Returned(stack), from, to, content, NoEvent)
  /\ UNCHANGED delivered
  /\ UNCHANGED agentVars

\* getState() counting every event as a message
getState_CountsAll(mem, active) ==
  [inhabitantCount |-> Cardinality(active),
   messageCount |-> Len(mem),
   totalEvents |-> Len(mem),
   inhabitants |-> {[id |-> i, name |-> NameOf(i), kind |-> KindOf(i)] :
                      i \in active}]

\* the object getState() returns for world memory mem and the active set;
\* its `inhabitants` array is kept as the set of its elements
getState(mem, active) ==
  [inhabitantCount |-> Cardinality(active),
   messageCount |-> Len(SelectSeq(mem, LAMBDA e : e.type = "message")),
   totalEvents |-> Len(mem),
   inhabitants |-> {[id |-> i, name |-> NameOf(i), kind |-> KindOf(i)] :
                      i \in active}]

\* a caller, inside a handler or not, takes a snapshot with getState()
GetState ==
  /\ lastOp' = Call("getState", Null, Null, Null, NoEvent)
                 @@ [state |-> getState(memory, inhabitants)]
  /\ UNCHANGED <<memory, sequenceCounter, inhabitants, relationships,
                 listeners, stack, delivered>>
  /\ UNCHANGED agentVars

\* agent g runs decideAndRespond on the message at position i of world
\* memory, with the world state of that moment and Math.random() = draw
DecideAndRespond(g, i, draw) ==
  /\ stack = <<>>
  /\ i \in 1..Len(memory)
  /\ memory[i].type = "message"
  /\ LET message == memory[i]
         out == decideAndRespond(agents[g], g, message,
                                 getState(memory, inhabitants), draw)
     IN /\ agents' = [agents EXCEPT ![g] = out.agent]
        /\ lastOp' = Call("decideAndRespond", g, message.to, message.content,
                          NoEvent)
                       @@ [message |-> message.id,
                           from |-> message.from,
                           draw |-> draw,
                           evaluation |-> out.evaluation,
                           should |-> out.should,
                           response |-> out.response]
  /\ UNCHANGED <<memory, sequenceCounter, inhabitants, relationships,
                 listeners, stack, delivered, timers, browser>>

-----------------------------------------------------------------------------
(* Specifications *)

Registered ==
  Len(listeners["inhabitant:enter"]) + Len(listeners["inhabitant:leave"])
    + Len(listeners["message"])

Targets == Ids \cup {WORLD}

\* The world driven from outside, without subscribers: any inhabitant
\* enters, leaves, broadcasts or writes to any id
Next ==
  \/ \E id \in Ids : Len(memory) < MaxEvents /\ Enter(id)
  \/ \E id \in Ids : Len(memory) < MaxEvents /\ Leave(id)
  \/ \E from \in Ids, to \in Targets :
       Len(memory) < MaxEvents /\ ProcessMessage(from, to, "hi all")

Spec == Init /\ [][Next]_vars

\* The world with subscribers: callbacks are registered with on(), every
\* emit() runs them, and a running handler may call processMessage
NextHandlers ==
  \/ \E ev \in EventNames :
       Registered < MaxHandlers /\ On(ev, Registered + 1)
  \/ \E id \in {"a", "b"} : Len(memory) < MaxHandlerEvents /\ Enter(id)
  \/ \E id \in {"a", "b"} : Len(memory) < MaxHandlerEvents /\ Leave(id)
  \/ \E from \in {"a", "b"} :
       Len(memory) < MaxHandlerEvents /\ ProcessMessage(from, "a", "hi all")
  \/ HandlerInvoke
  \/ HandlerReturn
  \/ \E from \in {"a", "b"} :
       /\ Len(memory) < MaxHandlerEvents
       /\ Len(stack) < MaxDepth
       /\ HandlerProcessMessage(from, WORLD, "hi all")

SpecHandlers == Init /\ [][NextHandlers]_vars

\* Two inhabitants broadcasting contents with and without a topic, among
\* them an empty string and an absent content
Contents ==
  {"Biology is fascinating", "more biology", " Physics  rules", "hi all", "",
   Null}

NextClassify ==
  \/ \E id \in {"a", "b"} :
       /\ Len(memory) < MaxClassifyEvents
       /\ id \notin inhabitants
       /\ Enter(id)
  \/ \E from \in {"a", "b"}, content \in Contents :
       /\ Len(memory) < MaxClassifyEvents
       /\ from \in inhabitants
       /\ ProcessMessage(from, WORLD, content)

SpecClassify == Init /\ [][NextClassify]_vars

\* Two inhabitants that enter once each and write to each other, the
\* second of which may leave: long enough for entanglement to saturate
NextDirect ==
  \/ \E id \in {"a", "b"} :
       /\ Len(memory) < MaxDirectEvents
       /\ ~Has(relationships, id)
       /\ Enter(id)
  \/ /\ Len(memory) < MaxDirectEvents
     /\ "b" \in inhabitants
     /\ Leave("b")
  \/ \E from \in {"a", "b"} :
       /\ Len(memory) < MaxDirectEvents
       /\ from \in inhabitants
       /\ ProcessMessage(from, IF from = "a" THEN "b" ELSE "a", "hi all")

SpecDirect == Init /\ [][NextDirect]_vars

\* Three inhabitants that come and go while two of them broadcast and one
\* of those also writes to the other
NextBroadcast ==
  \/ \E id \in Ids : Len(memory) < MaxBroadcastEvents /\ Enter(id)
  \/ \E id \in Ids : Len(memory) < MaxBroadcastEvents /\ Leave(id)
  \/ \E from \in {"a", "b"} :
       Len(memory) < MaxBroadcastEvents /\ ProcessMessage(from, WORLD, "hi all")
  \/ Len(memory) < MaxBroadcastEvents /\ ProcessMessage("a", "b", "hi all")

SpecBroadcast == Init /\ [][NextBroadcast]_vars

\* Three inhabitants that come, go and broadcast while snapshots of the
\* world state are taken between the calls
NextState ==
  \/ \E id \in Ids : Len(memory) < MaxStateEvents /\ Enter(id)
  \/ \E id \in Ids : Len(memory) < MaxStateEvents /\ Leave(id)
  \/ \E from \in Ids :
       Len(memory) < MaxStateEvents /\ ProcessMessage(from, WORLD, "hi all")
  \/ GetState

SpecState == Init /\ [][NextState]_vars

\* whether agent g has run decideAndRespond on the message at position i
Evaluated(g, i) == memory[i].id \in DOMAIN agents[g].evaluations

AgentContents == {"hi all", "What is Truth?", "truth and belief", Null}

\* Agent a enters, then human b; b writes to the agent, to the world and to
\* a third id, and a message of the agent to itself may be recorded; the
\* agent decides on each recorded message, its own included, before the next
\* one is sent, with any random draw
NextAgent ==
  \/ /\ Len(memory) < MaxAgentEvents
     /\ ~Has(relationships, "a")
     /\ Enter("a")
  \/ /\ Len(memory) < MaxAgentEvents
     /\ "a" \in inhabitants
     /\ ~Has(relationships, "b")
     /\ Enter("b")
  \/ \E to \in {"a", "c", WORLD}, content \in AgentContents :
       /\ Len(memory) < MaxAgentEvents
       /\ "b" \in inhabitants
       /\ \A i \in 1..Len(memory) :
            memory[i].type = "message" => Evaluated("a", i)
       /\ ProcessMessage("b", to, content)
  \/ /\ Len(memory) < MaxAgentEvents
     /\ "b" \in inhabitants
     /\ \A i \in 1..Len(memory) :
          memory[i].type = "message" => Evaluated("a", i)
     /\ ProcessMessage("a", "a", "hi all")
  \/ \E i \in 1..Len(memory), draw \in Draws :
       /\ memory[i].type = "message"
       /\ ~Evaluated("a", i)
       /\ DecideAndRespond("a", i, draw)

SpecAgent == Init /\ [][NextAgent]_vars

\* Agent a enters, then human b; b writes to a, and among the first events
\* also to the world and to a third id; a decides on each message before
\* the next one is sent
NextMemory ==
  \/ /\ ~Has(relationships, "a")
     /\ Enter("a")
  \/ /\ "a" \in inhabitants
     /\ ~Has(relationships, "b")
     /\ Enter("b")
  \/ \E to \in {"a", "c", WORLD} :
       /\ Len(memory) < MaxMemoryEvents
       /\ to = "a" \/ Len(memory) < MaxMixedEvents
       /\ "b" \in inhabitants
       /\ \A i \in 1..Len(memory) :
            memory[i].type = "message" => Evaluated("a", i)
       /\ ProcessMessage("b", to, "hi all")
  \/ \E i \in 1..Len(memory), draw \in Draws :
       /\ memory[i].type = "message"
       /\ ~Evaluated("a", i)
       /\ DecideAndRespond("a", i, draw)

SpecMemory == Init /\ [][NextMemory]_vars

TopicContents == {"hi all", "truth and belief", "Biology is fascinating"}

\* Agent a enters, then human b; b writes to a and to a third id with and
\* without a topic, and after the first events only to the third id,
\* alternating between two topics; a decides on each message before the
\* next one is sent
NextTopics ==
  \/ /\ ~Has(relationships, "a")
     /\ Enter("a")
  \/ /\ "a" \in inhabitants
     /\ ~Has(relationships, "b")
     /\ Enter("b")
  \/ \E to \in {"a", "c"}, content \in TopicContents :
       /\ Len(memory) < MaxTopicMixed
       /\ "b" \in inhabitants
       /\ \A i \in 1..Len(memory) :
            memory[i].type = "message" => Evaluated("a", i)
       /\ ProcessMessage("b", to, content)
  \/ /\ Len(memory) >= MaxTopicMixed
     /\ Len(memory) < MaxTopicEvents
     /\ "b" \in inhabitants
     /\ \A i \in 1..Len(memory) :
          memory[i].type = "message" => Evaluated("a", i)
     /\ ProcessMessage("b", "c",
                       IF Len(memory) % 2 = 0 THEN "truth and belief"
                       ELSE "Biology is fascinating")
  \/ \E i \in 1..Len(memory), draw \in Draws :
       /\ memory[i].type = "message"
       /\ ~Evaluated("a", i)
       /\ DecideAndRespond("a", i, draw)

SpecTopics == Init /\ [][NextTopics]_vars

-----------------------------------------------------------------------------
(* Reading the event log *)

IsCall(op) == lastOp' # lastOp /\ lastOp'.op = op

\* positions of the log holding an event of `type` about inhabitant id
EventsOf(type, id) ==
  {i \in 1..Len(memory) :
     memory[i].type = type /\ memory[i].inhabitantId = id}

SetMax(S) == CHOOSE x \in S : \A y \in S : y <= x

\* whether id was active when the event at position i was recorded: its
\* last enter or leave event before i is an enter event
ActiveAt(id, i) ==
  LET es == {j \in 1..(i - 1) :
               /\ memory[j].type \in {"enter", "leave"}
               /\ memory[j].inhabitantId = id}
  IN es # {} /\ memory[SetMax(es)].type = "enter"

\* the position of the enter event that last initialised the edges between
\* x and y (one of them entering while the other was active), 0 if none
EdgeBorn(x, y) ==
  SetMax({0} \cup
    {i \in 1..Len(memory) :
       /\ memory[i].type = "enter"
       /\ \/ memory[i].inhabitantId = x /\ ActiveAt(y, i)
          \/ memory[i].inhabitantId = y /\ ActiveAt(x, i)})

\* the direct messages x -> y recorded since the edges were initialised
Directs(x, y) ==
  Cardinality({i \in (EdgeBorn(x, y) + 1)..Len(memory) :
    memory[i].type = "message" /\ memory[i].from = x /\ memory[i].to = y})

\* the broadcasts of x recorded since then while y was active
Broadcasts(x, y) ==
  Cardinality({i \in (EdgeBorn(x, y) + 1)..Len(memory) :
    /\ memory[i].type = "message"
    /\ memory[i].from = x
    /\ memory[i].to = WORLD
    /\ ActiveAt(y, i)})

EnteredOnce(id) == Cardinality(EventsOf("enter", id)) = 1

-----------------------------------------------------------------------------
(* Sequence numbers *)

\* C1: the i-th event of world memory has sequence number i, so sequence
\* numbers increase strictly in log order without gaps or repeats, and
\* sequenceCounter is the length of the log; this also holds while handlers
\* call processMessage from inside a fan-out.
C1_SequenceNumbers ==
  /\ sequenceCounter = Len(memory)
  /\ \A i \in 1..Len(memory) : memory[i].sequence = i

\* a message recorded by a call made from inside a handler, after a leave
C1_Witness ==
  /\ lastOp.op = "processMessage"
  /\ lastOp.depth > 0
  /\ lastOp.ret = Len(memory)
  /\ \E i \in 1..Len(memory) : memory[i].type = "leave"

-----------------------------------------------------------------------------
(* Rejected calls *)

C8_RejectedLeave ==
  /\ [][(IsCall("leave") /\ lastOp'.id \notin inhabitants)
          => /\ lastOp'.ret = NoEvent
             /\ UNCHANGED <<memory, relationships, sequenceCounter,
                            inhabitants, listeners, delivered, stack>>]_vars
  /\ [](\A id \in Ids : \A i, j \in EventsOf("leave", id) :
          i < j => \E k \in EventsOf("enter", id) : i < k /\ k < j)

\* leave was called a second time on an id that has left, while
\* `inhabitant:leave` has a subscriber
C8_Witness ==
  /\ lastOp.op = "leave"
  /\ lastOp.ret = NoEvent
  /\ EventsOf("leave", lastOp.id) # {}
  /\ listeners["inhabitant:leave"] # <<>>
  /\ delivered # <<>>

-----------------------------------------------------------------------------
(* enter and leave *)

\* C9: leave of an active inhabitant appends exactly one `leave` event for
\* it, removes it from the active set and leaves the whole relationship
\* graph as it was: the edges from and to the leaver keep their values.
C9_LeaveKeepsEdges ==
  [][(IsCall("leave") /\ lastOp'.id \in inhabitants)
       => /\ Len(memory') = Len(memory) + 1
          /\ SubSeq(memory', 1, Len(memory)) = memory
          /\ memory'[Len(memory')].type = "leave"
          /\ memory'[Len(memory')].inhabitantId = lastOp'.id
          /\ lastOp'.ret = memory'[Len(memory')].sequence
          /\ inhabitants' = inhabitants \ {lastOp'.id}
          /\ relationships' = relationships]_vars

\* an inhabitant has left that has an edge to, and an edge from, somebody
\* else, both with interactions recorded on them
C9_Witness ==
  /\ lastOp.op = "leave"
  /\ lastOp.ret # NoEvent
  /\ \E o \in Ids \ {lastOp.id} :
       /\ HasEdge(relationships, lastOp.id, o)
       /\ HasEdge(relationships, o, lastOp.id)
       /\ relationships[lastOp.id][o].entanglement > 0
       /\ relationships[o][lastOp.id].interactions > 0

\* C10: enter(X) makes X active and appends exactly one `enter` event, and
\* then every other active inhabitant O has both edges X->O and O->X, at
\* model `default`, entanglement 0, interactions 0; so in every state every
\* ordered pair of distinct active inhabitants has an edge.
C10_EnterEdges ==
  /\ [][IsCall("enter")
          => /\ inhabitants' = inhabitants \cup {lastOp'.id}
             /\ Len(memory') = Len(memory) + 1
             /\ SubSeq(memory', 1, Len(memory)) = memory
             /\ memory'[Len(memory')].type = "enter"
             /\ memory'[Len(memory')].inhabitantId = lastOp'.id
             /\ \A o \in inhabitants' \ {lastOp'.id} :
                  /\ HasEdge(relationships', lastOp'.id, o)
                  /\ HasEdge(relationships', o, lastOp'.id)
                  /\ \A e \in {relationships'[lastOp'.id][o],
                                relationships'[o][lastOp'.id]} :
                       /\ e.model = "default"
                       /\ e.entanglement = 0
                       /\ e.interactions = 0]_vars
  /\ [](\A x, y \in inhabitants : x # y => HasEdge(relationships, x, y))

\* an inhabitant has entered for the second time and shares the world with
\* somebody it had exchanged a message with before
C10_Witness ==
  /\ lastOp.op = "enter"
  /\ lastOp.ret = Len(memory)
  /\ Cardinality(EventsOf("enter", lastOp.id)) = 2
  /\ \E o \in inhabitants \ {lastOp.id} :
       \E i \in 1..Len(memory) :
         /\ memory[i].type = "message"
         /\ memory[i].from = o
         /\ memory[i].to = lastOp.id

-----------------------------------------------------------------------------
(* Classification *)

MessageAt(i) == memory[i].type = "message"

\* the topics of the RecentWindow messages recorded before position i
TopicsBefore(i) ==
  TopicsOf(getRecentMessages(SubSeq(memory, 1, i - 1), RecentWindow))

\* C3: a message whose topic is not empty and is the topic of none of the
\* 20 most recent messages recorded before it is classified `fork`.
C3_ForkOnNovelTopic ==
  \A i \in 1..Len(memory) :
    (/\ MessageAt(i)
     /\ extractTopic(memory[i].content) # NoTopic
     /\ extractTopic(memory[i].content) \notin TopicsBefore(i))
      => memory[i].classification = "fork"

\* C4: a message without an extractable topic (absent or empty content, or
\* no word longer than 4 characters) is classified `perturbation`, whatever
\* was recorded before it.
C4_NoTopicIsPerturbation ==
  \A i \in 1..Len(memory) :
    (/\ MessageAt(i)
     /\ \/ extractTopic(memory[i].content) = NoTopic
        \/ memory[i].content \in {Null, "", "hi all"})
      => memory[i].classification = "perturbation"

\* the log holds a message with a topic followed by one with absent
\* content, one with empty content and one with short words only
C4_Witness ==
  \E i, j, k, l \in 1..Len(memory) :
    /\ i < j /\ i < k /\ i < l
    /\ MessageAt(i) /\ MessageAt(j) /\ MessageAt(k) /\ MessageAt(l)
    /\ extractTopic(memory[i].content) = <<"p","h","y","s","i","c","s">>
    /\ memory[j].content = Null
    /\ memory[k].content = ""
    /\ memory[l].content = "hi all"

-----------------------------------------------------------------------------
(* Relationship updates *)

\* C5: for A and B that entered once each and have their edges, after k
\* direct messages A -> B and m direct messages B -> A in any order the
\* entanglement of A -> B is min(1, 0.10 k + 0.05 m) and that of B -> A is
\* min(1, 0.05 k + 0.10 m) (in hundredths); both edges count k + m
\* interactions besides the broadcasts that touched them, and both are
\* `non-default` once k + m >= 2. After two messages A -> B and no reply:
\* 0.2 and 0.1, interactions 2, both `non-default`.
C5_DirectEntanglement ==
  \A A, B \in Ids :
    (/\ A # B
     /\ EnteredOnce(A) /\ EnteredOnce(B)
     /\ HasEdge(relationships, A, B))
      => LET k == Directs(A, B)
             m == Directs(B, A)
             ab == relationships[A][B]
             ba == relationships[B][A]
         IN /\ HasEdge(relationships, B, A)
            /\ ab.entanglement = Min(EntCap, EntDirect * k + EntReciprocal * m)
            /\ ba.entanglement = Min(EntCap, EntReciprocal * k + EntDirect * m)
            /\ ab.interactions = k + m + Broadcasts(A, B)
            /\ ba.interactions = k + m + Broadcasts(B, A)
            /\ k + m >= 2 => ab.model = "non-default" /\ ba.model = "non-default"
            /\ (k = 2 /\ m = 0 /\ Broadcasts(A, B) = 0 /\ Broadcasts(B, A) = 0)
                 => /\ ab.entanglement = 20 /\ ba.entanglement = 10
                    /\ ab.interactions = 2 /\ ba.interactions = 2

\* both directions have been written to and the entanglement of one edge
\* has saturated below the sum of its increments
C5_Witness ==
  \E A, B \in Ids :
    /\ A # B /\ EnteredOnce(A) /\ EnteredOnce(B)
    /\ HasEdge(relationships, A, B)
    /\ Directs(B, A) > 0
    /\ EntDirect * Directs(A, B) + EntReciprocal * Directs(B, A) > EntCap
    /\ relationships[A][B].entanglement = EntCap
    /\ relationships[B][A].entanglement < EntCap

\* C6: while no direct message has passed between A and B since their edges
\* were initialised, after n broadcasts of A made while B was active the
\* edge A -> B has n interactions, and is `non-default` if n >= 3 and
\* `default` if n <= 2.
C6_BroadcastPromotion ==
  \A A, B \in Ids :
    (/\ A # B
     /\ HasEdge(relationships, A, B)
     /\ Directs(A, B) = 0 /\ Directs(B, A) = 0)
      => LET n == Broadcasts(A, B)
         IN /\ relationships[A][B].interactions = n
            /\ n >= 3 => relationships[A][B].model = "non-default"
            /\ n <= 2 => relationships[A][B].model = "default"

\* A has broadcast three times to B, which heard nothing else from A, and
\* once more before their edges were initialised
C6_Witness ==
  \E A, B \in Ids :
    /\ A # B
    /\ HasEdge(relationships, A, B)
    /\ Directs(A, B) = 0 /\ Directs(B, A) = 0
    /\ Broadcasts(A, B) = 3
    /\ relationships[A][B].model = "non-default"
    /\ \E i \in 1..EdgeBorn(A, B) :
         memory[i].type = "message" /\ memory[i].from = A

\* C7: a broadcast of F changes nothing but the edges F -> O of the active
\* O # F: no edge appears or disappears, no entanglement changes, and the
\* edges O -> F, the edges between others and the edges from F to
\* inhabitants that have left keep all their fields.
C7_BroadcastFrame ==
  [][(IsCall("processMessage") /\ lastOp'.to = WORLD)
       => /\ DOMAIN relationships' = DOMAIN relationships
          /\ \A x \in DOMAIN relationships :
               /\ DOMAIN relationships'[x] = DOMAIN relationships[x]
               /\ \A y \in DOMAIN relationships[x] :
                    /\ relationships'[x][y].entanglement
                         = relationships[x][y].entanglement
                    /\ (x # lastOp'.id \/ y \notin inhabitants)
                         => relationships'[x][y] = relationships[x][y]]_vars

\* F has broadcast while it had an entangled edge to an active inhabitant,
\* which has one back, and an edge to an inhabitant that has left
C7_Witness ==
  /\ lastOp.op = "processMessage"
  /\ lastOp.to = WORLD
  /\ lastOp.ret = Len(memory)
  /\ \E o \in inhabitants \ {lastOp.id} :
       /\ HasEdge(relationships, lastOp.id, o)
       /\ HasEdge(relationships, o, lastOp.id)
       /\ relationships[lastOp.id][o].entanglement > 0
       /\ relationships[lastOp.id][o].lastInteraction = lastOp.ret
  /\ \E gone \in Ids \ inhabitants :
       HasEdge(relationships, lastOp.id, gone)

-----------------------------------------------------------------------------
(* The relationship graph over time *)

\* enter(id) of either end of the edge x -> y: the one call that gives the
\* edge a new default record or drops it with the entrant's old map
EnterOf(x, y) == IsCall("enter") /\ lastOp'.id \in {x, y}

\* C11 as stated: in every step of any sequence of enter, leave and
\* processMessage calls an existing edge stays in the graph, and an edge
\* whose model is `non-default` keeps that model.
C11_NeverReverts ==
  [][\A x, y \in Ids :
       HasEdge(relationships, x, y)
         => /\ HasEdge(relationships', x, y)
            /\ (relationships[x][y].model = "non-default"
                  => relationships'[x][y].model = "non-default")]_vars

\* C11 amended: an existing edge x -> y stays in the graph and a
\* `non-default` model stays `non-default` in every step that is not an
\* enter call of x or of y; leave, processMessage and the entry of any other
\* inhabitant never remove an edge or revert its model.
C11_NeverRevertsButOnEntry ==
  [][\A x, y \in Ids :
       (HasEdge(relationships, x, y) /\ ~EnterOf(x, y))
         => /\ HasEdge(relationships', x, y)
            /\ (relationships[x][y].model = "non-default"
                  => relationships'[x][y].model = "non-default")]_vars

\* the edge a -> b is still `non-default` after b has left and c entered
C11_Witness ==
  /\ lastOp.op = "enter"
  /\ lastOp.id = "c"
  /\ "b" \notin inhabitants
  /\ EventsOf("leave", "b") # {}
  /\ HasEdge(relationships, "a", "b")
  /\ relationships["a"]["b"].model = "non-default"

\* C12 as stated: in every step of any sequence of enter, leave and
\* processMessage calls the entanglement and the interaction count of an
\* existing edge do not decrease.
C12_NeverDecrease ==
  [][\A x, y \in Ids :
       (HasEdge(relationships, x, y) /\ HasEdge(relationships', x, y))
         => /\ relationships'[x][y].entanglement
                 >= relationships[x][y].entanglement
            /\ relationships'[x][y].interactions
                 >= relationships[x][y].interactions]_vars

\* C12 amended: the entanglement and the interaction count of an existing
\* edge x -> y do not decrease in any step that is not an enter call of x or
\* of y.
C12_NeverDecreaseButOnEntry ==
  [][\A x, y \in Ids :
       (/\ HasEdge(relationships, x, y)
        /\ HasEdge(relationships', x, y)
        /\ ~EnterOf(x, y))
         => /\ relationships'[x][y].entanglement
                 >= relationships[x][y].entanglement
            /\ relationships'[x][y].interactions
                 >= relationships[x][y].interactions]_vars

\* an inhabitant has left and its edge to another one keeps the entanglement
\* and the count that a direct message gave it
C12_Witness ==
  /\ lastOp.op = "leave"
  /\ lastOp.ret # NoEvent
  /\ \E o \in Ids :
       /\ HasEdge(relationships, lastOp.id, o)
       /\ relationships[lastOp.id][o].entanglement > 0
       /\ relationships[lastOp.id][o].interactions > 0

-----------------------------------------------------------------------------
(* Senders of recorded messages *)

\* C19: every message event of world memory was sent by an inhabitant that
\* was active when it was recorded: the last enter or leave event of its
\* `from` id before the message is an enter event.
C19_SenderWasActive ==
  \A i \in 1..Len(memory) :
    memory[i].type = "message" => ActiveAt(memory[i].from, i)

\* an inhabitant whose message is in the log has left, and its next message
\* was rejected
C19_Witness ==
  /\ lastOp.op = "processMessage"
  /\ lastOp.ret = NoEvent
  /\ EventsOf("leave", lastOp.id) # {}
  /\ \E i \in 1..Len(memory) :
       memory[i].type = "message" /\ memory[i].from = lastOp.id

-----------------------------------------------------------------------------
(* getState *)

MessagePositions(mem) == {i \in 1..Len(mem) : mem[i].type = "message"}

\* C20: a getState() call changes no engine state and returns the size of
\* the active set, the number of `message` events of the log, the length of
\* the log (which is sequenceCounter) and one {id, name, kind} summary per
\* active inhabitant; the messageCount and totalEvents it would return never
\* decrease from one state to the next.
C20_GetState ==
  /\ [][IsCall("getState")
          => /\ UNCHANGED <<memory, sequenceCounter, inhabitants,
                            relationships, listeners, stack, delivered>>
             /\ lastOp'.state.inhabitantCount = Cardinality(inhabitants)
             /\ lastOp'.state.messageCount
                  = Cardinality(MessagePositions(memory))
             /\ lastOp'.state.totalEvents = Len(memory)
             /\ lastOp'.state.totalEvents = sequenceCounter
             /\ \A i \in inhabitants :
                  [id |-> i, name |-> NameOf(i), kind |-> KindOf(i)]
                    \in lastOp'.state.inhabitants
             /\ Cardinality(lastOp'.state.inhabitants)
                  = Cardinality(inhabitants)]_vars
  /\ [][/\ getState(memory', inhabitants').messageCount
             >= getState(memory, inhabitants).messageCount
        /\ getState(memory', inhabitants').totalEvents
             >= getState(memory, inhabitants).totalEvents]_vars

\* a snapshot taken after an inhabitant has left: it counts fewer messages
\* than events and fewer active inhabitants than have entered
C20_Witness ==
  /\ lastOp.op = "getState"
  /\ lastOp.state.messageCount > 0
  /\ lastOp.state.messageCount < lastOp.state.totalEvents
  /\ lastOp.state.inhabitantCount = 1
  /\ \E id \in Ids : EventsOf("leave", id) # {}

-----------------------------------------------------------------------------
(* Agents: bounded accumulators *)

\* a step in which an agent ran decideAndRespond; lastOp' describes the call
DecideStep == lastOp'.op = "decideAndRespond" /\ agents' # agents

\* C13: in every reachable state the entanglement of every edge is within
\* [0, 1], also when direct messages keep arriving after it has reached 1,
\* and the trust of every model of another inhabitant that an agent holds is
\* within [0, 1] (both in hundredths here).
C13_Bounded ==
  /\ \A x, y \in Ids :
       HasEdge(relationships, x, y)
         => /\ relationships[x][y].entanglement >= 0
            /\ relationships[x][y].entanglement <= 100
  /\ \A g \in AgentIds : \A o \in DOMAIN agents[g].models :
       /\ agents[g].models[o].trust >= 0
       /\ agents[g].models[o].trust <= 100

\* b has written to a well after the edge b -> a reached entanglement 1 and
\* after a's trust in b reached 1
C13_Witness ==
  /\ HasEdge(relationships, "b", "a")
  /\ relationships["b"]["a"].entanglement = 100
  /\ relationships["b"]["a"].interactions > 25
  /\ "b" \in DOMAIN agents["a"].models
  /\ agents["a"].models["b"].trust = 100
  /\ agents["a"].models["b"].messageCount > 25

-----------------------------------------------------------------------------
(* Agents: the experience log *)

\* the experience records of the messages agent g has found salient, in the
\* order of world memory: what its log would hold if nothing were forgotten
Qualified(g) ==
  LET Salient(e) ==
        /\ e.type = "message"
        /\ e.id \in DOMAIN agents[g].evaluations
        /\ agents[g].evaluations[e.id] > SalienceThreshold
      msgs == SelectSeq(memory, Salient)
  IN [k \in 1..Len(msgs) |->
        Experience(msgs[k], agents[g].evaluations[msgs[k].id])]

\* entries from..to of the salient records of g
Entries(g, from, to) == SubSeq(Qualified(g), from, to)

\* C14 as stated: when the experience log of an agent has reached 101
\* qualifying entries it holds exactly entries 1-10 and 92-101.
C14_KeepsLastTen ==
  \A g \in AgentIds :
    Len(Qualified(g)) = 101
      => agents[g].experienceLog = Entries(g, 1, 10) \o Entries(g, 92, 101)

\* C14 amended: when the experience log of an agent has reached 101
\* qualifying entries it holds exactly entries 1-10 and 22-101, in order:
\* 90 entries, entries 11-21 being the ones discarded.
C14_KeepsLastEighty ==
  \A g \in AgentIds :
    Len(Qualified(g)) = 101
      => /\ agents[g].experienceLog
              = Entries(g, 1, 10) \o Entries(g, 22, 101)
         /\ Len(agents[g].experienceLog) = 90

\* a has just integrated its 101st salient message, after having seen
\* messages that were not salient
C14_Witness ==
  /\ lastOp.op = "decideAndRespond"
  /\ lastOp.evaluation > SalienceThreshold
  /\ Len(Qualified("a")) = 101
  /\ Cardinality(DOMAIN agents["a"].evaluations) > 101

\* C15: after every call the experience log has at most 100 entries; when
\* the append of a call makes it 101 long, it becomes entries 1-10 followed
\* by entries 22-101 of that 101-entry log, in their order; and the entries
\* at positions 1-10 never change once they are there.
C15_Compaction ==
  /\ [](\A g \in AgentIds : Len(agents[g].experienceLog) <= 100)
  /\ [][\A g \in AgentIds :
          (/\ DecideStep
           /\ lastOp'.id = g
           /\ lastOp'.evaluation > SalienceThreshold
           /\ Len(agents[g].experienceLog) = 100)
            => LET pre == Append(agents[g].experienceLog,
                                 Experience(memory[lastOp'.message],
                                            lastOp'.evaluation))
               IN agents'[g].experienceLog
                    = [k \in 1..90 |-> IF k <= 10 THEN pre[k]
                                       ELSE pre[k + 11]]]_vars
  /\ [][\A g \in AgentIds :
          \A k \in 1..10 :
            k <= Len(agents[g].experienceLog)
              => /\ k <= Len(agents'[g].experienceLog)
                 /\ agents'[g].experienceLog[k]
                      = agents[g].experienceLog[k]]_vars

\* the log of a has been compacted a second time
C15_Witness ==
  /\ lastOp.op = "decideAndRespond"
  /\ Len(Qualified("a")) = 112
  /\ Len(agents["a"].experienceLog) = 90
  /\ agents["a"].experienceLog[1] = Qualified("a")[1]

-----------------------------------------------------------------------------
(* Agents: evaluate *)

\* C16: evaluate returns a value in [-1, 1] for every message and every
\* agent state, and every value cached in an agent's evaluations map is in
\* [-1, 1] (in hundredths here).
C16_EvaluationRange ==
  /\ lastOp.op = "decideAndRespond"
       => lastOp.evaluation >= 0 - 100 /\ lastOp.evaluation <= 100
  /\ \A g \in AgentIds : \A m \in DOMAIN agents[g].evaluations :
       /\ agents[g].evaluations[m] >= 0 - 100
       /\ agents[g].evaluations[m] <= 100

\* a message whose weights add up to 1.05 was evaluated to 1 and cached
C16_Witness ==
  /\ lastOp.op = "decideAndRespond"
  /\ lastOp.to = lastOp.id
  /\ lastOp.content = "truth and belief"
  /\ agents[lastOp.id].models[lastOp.from].messageCount > 1
  /\ lastOp.evaluation = 100
  /\ agents[lastOp.id].evaluations[lastOp.message] = 100

\* the contents in which an interest of Vera (agent a) occurs once they are
\* lowercased, and those with a question mark
MentionsInterest(g, content) ==
  g = "a" /\ content \in {"What is Truth?", "truth and belief"}

HasQuestion(content) == content = "What is Truth?"

\* the sum that C17 gives for agent g, with its models as they are before
\* the call
ExpectedWeight(g, from, to, content) ==
  (IF to = g THEN 60 ELSE IF to = WORLD THEN 20 ELSE 0)
  + (IF MentionsInterest(g, content) THEN 30 ELSE 0)
  + (IF from \in DOMAIN agents[g].models /\ agents[g].models[from].trust > 50
     THEN 15 ELSE 0)
  + (IF HasQuestion(content) THEN 15 ELSE 0)

\* C17: evaluate(message) is the clamp to [-1, 1] of 0.6 if the message is
\* addressed to the agent, else 0.2 if to "world", else 0; plus 0.3 if at
\* least one interest occurs in the lowercased content, counted once; plus
\* 0.15 if a model of the sender exists with trust > 0.5; plus 0.15 if the
\* content has a '?'. A direct, question-containing, interest-matching
\* message from a sender with trust > 0.5 evaluates to exactly 1.
C17_EvaluateFormula ==
  [][DecideStep
       => LET g == lastOp'.id
              sum == ExpectedWeight(g, lastOp'.from, lastOp'.to,
                                    lastOp'.content)
          IN /\ lastOp'.evaluation
                  = (IF sum > 100 THEN 100
                     ELSE IF sum < 0 - 100 THEN 0 - 100 ELSE sum)
             /\ (/\ lastOp'.to = g
                 /\ HasQuestion(lastOp'.content)
                 /\ MentionsInterest(g, lastOp'.content)
                 /\ lastOp'.from \in DOMAIN agents[g].models
                 /\ agents[g].models[lastOp'.from].trust > 50)
                  => lastOp'.evaluation = 100]_vars

\* a direct question that mentions an interest, from a sender the agent
\* already trusts above 0.5, was evaluated to 1
C17_Witness ==
  /\ lastOp.op = "decideAndRespond"
  /\ lastOp.to = lastOp.id
  /\ lastOp.content = "What is Truth?"
  /\ agents[lastOp.id].models[lastOp.from].messageCount > 1
  /\ lastOp.evaluation = 100

-----------------------------------------------------------------------------
(* Agents: forced response *)

\* C18: for a message whose `to` is the agent's own id shouldRespond returns
\* true whatever the evaluation, the engagement, silenceTicks, the head count
\* and the random draw are, and decideAndRespond returns a response.
C18_ForcedResponse ==
  [][(DecideStep /\ lastOp'.to = lastOp'.id)
       => /\ lastOp'.should
          /\ lastOp'.response # NoResponse
          /\ lastOp'.response.from = lastOp'.id]_vars

\* the agent answered a message addressed to it with the highest draw, and
\* one that it had sent itself
C18_Witness ==
  /\ lastOp.op = "decideAndRespond"
  /\ lastOp.to = lastOp.id
  /\ lastOp.from = lastOp.id
  /\ lastOp.draw = 999999
  /\ lastOp.should
  /\ \E i \in 1..Len(memory) :
       /\ memory[i].type = "message"
       /\ memory[i].from = "b"
       /\ memory[i].to = "a"

-----------------------------------------------------------------------------
(* The fan-out of a message *)

\* the handlers that dlv records as invoked for event ev of sequence s, in
\* the order of their invocation
HandlersOf(dlv, ev, s) ==
  LET About(d) == d.ev = ev /\ d.seq = s
      sel == SelectSeq(dlv, About)
  IN [k \in 1..Len(sel) |-> sel[k].h]

\* whether the emit() of message s is among the calls in progress
InFanOut(stk, s) ==
  \E k \in 1..Len(stk) : stk[k].ev = "message" /\ stk[k].seq = s

\* whether the relationship updates of message m are in the graph
Applied(m) ==
  IF m.to = WORLD
  THEN \A o \in inhabitants \ {m.from} :
         HasEdge(relationships, m.from, o)
           => relationships[m.from][o].lastInteraction >= m.sequence
  ELSE /\ HasEdge(relationships, m.from, m.to)
            => relationships[m.from][m.to].lastInteraction >= m.sequence
       /\ HasEdge(relationships, m.to, m.from)
            => relationships[m.to][m.from].lastInteraction >= m.sequence

\* C21: when processMessage records a message, every handler registered for
\* `message` is invoked exactly once with it, in registration order, each
\* running to completion before the next starts (no handler of an earlier
\* event is invoked between two handlers of a later one) and all of them
\* before processMessage returns; when a handler is invoked the message is
\* in the log with its classification and its relationship updates applied.
C21_MessageFanOut ==
  /\ [](\A i, j, k \in 1..Len(delivered) :
          (i < j /\ j < k /\ delivered[i].seq = delivered[k].seq)
            => delivered[j].seq >= delivered[i].seq)
  /\ [](\A s \in 1..Len(memory) :
          memory[s].type = "message"
            => LET D == HandlersOf(delivered, "message", s)
               IN /\ Len(D) <= Len(listeners["message"])
                  /\ D = SubSeq(listeners["message"], 1, Len(D)))
  /\ [][\A s \in 1..Len(memory') :
          (/\ memory'[s].type = "message"
           /\ ~InFanOut(stack', s)
           /\ InFanOut(stack, s) \/ s > Len(memory))
            => HandlersOf(delivered', "message", s) = listeners["message"]]_vars
  /\ [][Len(delivered') > Len(delivered)
          => LET d == delivered'[Len(delivered')]
             IN d.ev = "message"
                  => /\ d.seq <= Len(memory)
                     /\ memory[d.seq].type = "message"
                     /\ memory[d.seq].classification
                          \in {"fork", "perturbation"}
                     /\ Applied(memory[d.seq])]_vars

\* processMessage has returned from a message whose first handler sent a
\* message of its own: two handlers have each received both messages
C21_Witness ==
  /\ stack = <<>>
  /\ Len(listeners["message"]) = 2
  /\ \E s \in 1..(Len(memory) - 1) :
       /\ memory[s].type = "message"
       /\ memory[s + 1].type = "message"
       /\ HandlersOf(delivered, "message", s) = listeners["message"]
       /\ HandlersOf(delivered, "message", s + 1) = listeners["message"]
       /\ \E i, j \in 1..Len(delivered) :
            /\ i < j
            /\ delivered[i].seq = s + 1
            /\ delivered[j].seq = s

-----------------------------------------------------------------------------
(* Agents: responses *)

\* C25: a decideAndRespond call returns null or one response; a response has
\* from = the agent's id, replyTo = the id of the triggering message, and
\* to = the sender of the triggering message if that message was addressed
\* to this agent, "world" otherwise.
C25_ResponseShape ==
  [][DecideStep
       => \/ lastOp'.response = NoResponse
          \/ /\ lastOp'.response.from = lastOp'.id
             /\ lastOp'.response.replyTo = lastOp'.message
             /\ lastOp'.response.to
                  = (IF lastOp'.to = lastOp'.id THEN lastOp'.from
                     ELSE WORLD)]_vars

\* the agent answered a message that b had addressed to a third id, and had
\* answered b directly before
C25_Witness ==
  /\ lastOp.op = "decideAndRespond"
  /\ lastOp.from = "b"
  /\ lastOp.to = "c"
  /\ lastOp.response # NoResponse
  /\ lastOp.response.to = WORLD
  /\ \E i \in 1..Len(memory) :
       /\ memory[i].type = "message"
       /\ memory[i].to = lastOp.id
       /\ Evaluated(lastOp.id, i)

-----------------------------------------------------------------------------
(* Agents: models of others *)

\* the positions of the messages from o that agent g has decided on
Contacts(g, o) ==
  {i \in 1..Len(memory) :
     memory[i].type = "message" /\ memory[i].from = o /\ Evaluated(g, i)}

\* C26: an agent holds a model of o exactly when it has processed a message
\* from another inhabitant o; its messageCount is the number of those
\* messages (at least 1) and its trust is min(1, 0.5 + 0.02 * messageCount),
\* whatever the messages were; trust never decreases.
C26_Trust ==
  /\ [](\A g \in AgentIds :
          /\ DOMAIN agents[g].models
               = {o \in Ids \ {g} : Contacts(g, o) # {}}
          /\ \A o \in DOMAIN agents[g].models :
               /\ agents[g].models[o].messageCount
                    = Cardinality(Contacts(g, o))
               /\ agents[g].models[o].messageCount >= 1
               /\ agents[g].models[o].trust
                    = (IF 50 + 2 * agents[g].models[o].messageCount > 100
                       THEN 100
                       ELSE 50 + 2 * agents[g].models[o].messageCount))
  /\ [][\A g \in AgentIds : \A o \in DOMAIN agents[g].models :
          /\ o \in DOMAIN agents'[g].models
          /\ agents'[g].models[o].trust >= agents[g].models[o].trust]_vars

\* the contact after the one that brought a's trust in b to 1, among
\* messages to a, to the world and to a third id
C26_Witness ==
  /\ lastOp.op = "decideAndRespond"
  /\ "b" \in DOMAIN agents["a"].models
  /\ agents["a"].models["b"].messageCount = 26
  /\ agents["a"].models["b"].trust = 100
  /\ \E i, j \in Contacts("a", "b") :
       memory[i].to = WORLD /\ memory[j].to = "c"

\* C27: theirModelOfMe.interest of an agent's model of o changes only when
\* the agent processes a message from o addressed to the agent itself, and
\* then by +0.1 capped at 1 (a model created by such a message starts at
\* 0.6, any other at 0.5); theirModelOfMe.trust is 0.5 in every state.
C27_TheirModelOfMe ==
  /\ [](\A g \in AgentIds : \A o \in DOMAIN agents[g].models :
          agents[g].models[o].theirModelOfMe.trust = 50)
  /\ [][\A g \in AgentIds : \A o \in DOMAIN agents'[g].models :
          LET before == IF o \in DOMAIN agents[g].models
                        THEN agents[g].models[o].theirModelOfMe.interest
                        ELSE 50
              direct == /\ DecideStep
                        /\ lastOp'.id = g
                        /\ lastOp'.from = o
                        /\ lastOp'.to = g
          IN agents'[g].models[o].theirModelOfMe.interest
               = (IF ~direct THEN before
                  ELSE IF before + 10 > 100 THEN 100 ELSE before + 10)]_vars

\* more than five messages of b addressed to a have brought the interest to
\* 1 and kept it there, and a message of b to the world was processed too
C27_Witness ==
  /\ lastOp.op = "decideAndRespond"
  /\ lastOp.to = "a"
  /\ "b" \in DOMAIN agents["a"].models
  /\ agents["a"].models["b"].theirModelOfMe.interest = 100
  /\ Cardinality({i \in Contacts("a", "b") : memory[i].to = "a"}) > 5
  /\ \E i \in Contacts("a", "b") : memory[i].to = WORLD

\* C28: after any sequence of decideAndRespond calls, calls on the agent's
\* own messages included, the models map of an agent has no entry for the
\* agent's own id.
C28_NoModelOfSelf ==
  \A g \in AgentIds : g \notin DOMAIN agents[g].models

\* the agent has decided on a message it sent itself and holds a model of b
C28_Witness ==
  /\ lastOp.op = "decideAndRespond"
  /\ lastOp.from = lastOp.id
  /\ DOMAIN agents[lastOp.id].models = {"b"}

-----------------------------------------------------------------------------
(* Edges and messages *)

\* the ordered pairs that have an edge in rels
EdgePairs(rels) ==
  UNION {{<<x, y>> : y \in DOMAIN rels[x]} : x \in DOMAIN rels}

\* C30: a processMessage call creates no edge and removes none: the ordered
\* pairs with an edge are the same before and after it, also for a direct
\* message to an id that never entered, to the sender itself or to an
\* inhabitant that was never active together with the sender; when the
\* sender is active such a message is recorded as an event all the same.
C30_NoEdgeCreated ==
  [][IsCall("processMessage")
       => /\ EdgePairs(relationships') = EdgePairs(relationships)
          /\ DOMAIN relationships' = DOMAIN relationships
          /\ lastOp'.id \in inhabitants
               => /\ Len(memory') = Len(memory) + 1
                  /\ memory'[Len(memory')].type = "message"
                  /\ memory'[Len(memory')].from = lastOp'.id
                  /\ memory'[Len(memory')].to = lastOp'.to
                  /\ lastOp'.ret = memory'[Len(memory')].sequence]_vars

\* a message to an id that never entered was recorded, after a message of
\* an inhabitant to itself, and the graph has no edge at all
C30_Witness ==
  /\ lastOp.op = "processMessage"
  /\ lastOp.ret = Len(memory)
  /\ lastOp.to \in Ids
  /\ lastOp.to \notin DOMAIN relationships
  /\ \E i \in 1..(Len(memory) - 1) :
       memory[i].type = "message" /\ memory[i].from = memory[i].to
  /\ EdgePairs(relationships) = {}

-----------------------------------------------------------------------------
(* Agents: what is remembered *)

\* the topic token of the contents the model sends: the first lowercased
\* word of more than 5 characters
ExpectedTopic(content) ==
  CASE content = "truth and belief" -> <<"b","e","l","i","e","f">>
    [] content = "Biology is fascinating" -> <<"b","i","o","l","o","g","y">>
    [] content = "What is Truth?" -> <<"t","r","u","t","h","?">>
    [] OTHER -> NoTopic

\* the topic tokens of the messages agent g has decided on, oldest first
TopicsHeard(g) ==
  LET WithTopic(e) ==
        /\ e.type = "message"
        /\ e.id \in DOMAIN agents[g].evaluations
        /\ ExpectedTopic(e.content) # NoTopic
      msgs == SelectSeq(memory, WithTopic)
  IN [k \in 1..Len(msgs) |-> ExpectedTopic(msgs[k].content)]

\* C29: a decideAndRespond call appends an experience record of the message
\* if and only if its evaluation is above 0.3 (exactly 0.3 appends nothing);
\* whether or not it does, the topic token of the message, if it has one, is
\* appended to conversationTopics, which holds the 20 most recent topics
\* heard and never more.
C29_Remembered ==
  /\ [][\A g \in AgentIds :
          (DecideStep /\ lastOp'.id = g)
            => /\ lastOp'.evaluation <= 30
                    => agents'[g].experienceLog = agents[g].experienceLog
               /\ (lastOp'.evaluation > 30
                     /\ Len(agents[g].experienceLog) < 100)
                    => agents'[g].experienceLog
                         = Append(agents[g].experienceLog,
                                  Experience(memory[lastOp'.message],
                                             lastOp'.evaluation))]_vars
  /\ [](\A g \in AgentIds :
          LET heard == TopicsHeard(g)
              n == Len(heard)
          IN /\ Len(agents[g].conversationTopics) <= 20
             /\ agents[g].conversationTopics
                  = (IF n <= 20 THEN heard ELSE SubSeq(heard, n - 19, n)))

\* the agent has heard more than 20 topics; the last message had a topic but
\* an evaluation too low to be remembered, and one was evaluated at exactly
\* 0.3
C29_Witness ==
  /\ lastOp.op = "decideAndRespond"
  /\ lastOp.evaluation < 30
  /\ ExpectedTopic(lastOp.content) # NoTopic
  /\ Len(TopicsHeard("a")) > 20
  /\ Len(agents["a"].conversationTopics) = 20
  /\ \E m \in DOMAIN agents["a"].evaluations : agents["a"].evaluations[m] = 30
  /\ Len(agents["a"].experienceLog) > 0

-----------------------------------------------------------------------------
(* The server: the world, its agents and the deferred callbacks *)

\* createDefaultAgents(): the agents in the order of the array
AgentOrder == <<"a", "c">>

\* the 'message' handler without its filter on the sender
respondingAgents_All(from) == AgentOrder

\* agents.filter((a) => a.id !== message.from)
respondingAgents(from) == SelectSeq(AgentOrder, LAMBDA g : g # from)

\* world.on('message', ...) run by the emit() of a processMessage() that
\* left the fields w: one setTimeout per responding agent, each closing
\* over the message just recorded
OnMessage(tm, w) ==
  IF ~w.recorded THEN tm
  ELSE LET at == Len(w.memory)
           r == respondingAgents(w.memory[at].from)
       IN tm \o [k \in 1..Len(r) |->
                   [agent |-> r[k], message |-> at, fired |-> FALSE]]

\* the world state when timer k was set: the events up to its message and
\* the inhabitants active then
ScheduledState(k) ==
  LET at == timers[k].message
      EnterLeave(id) == {j \in 1..at :
                           /\ memory[j].type \in {"enter", "leave"}
                           /\ memory[j].inhabitantId = id}
      Last(id) == CHOOSE j \in EnterLeave(id) : \A x \in EnterLeave(id) : x <= j
  IN getState(SubSeq(memory, 1, at),
              {id \in Ids : /\ EnterLeave(id) # {}
                            /\ memory[Last(id)].type = "enter"})

\* a callback that would pass the state captured when it was scheduled
callbackWorldState_Captured(k) == ScheduledState(k)

\* `const worldState = world.getState()` inside the callback of timer k
callbackWorldState(k) == getState(memory, inhabitants)

\* socket.on('human:message'): processMessage() from the human, whose emit()
\* runs the server's 'message' handler
HumanMessageFrom(h, to, content) ==
  /\ stack = <<>>
  /\ LET w == PostMessage(Now, h, to, content, NoEvent)
     IN /\ memory' = w.memory
        /\ sequenceCounter' = w.sequenceCounter
        /\ relationships' = w.relationships
        /\ timers' = OnMessage(timers, w)
        /\ lastOp' = Call("processMessage", h, to, content, w.ret)
  /\ UNCHANGED <<inhabitants, listeners, stack, delivered, agents, browser>>

\* the same for the socket whose human is b
HumanMessage(to, content) == HumanMessageFrom("b", to, content)

\* what agent.initiate() may return as content, Null when it returns null
InitiationTopics == {"I've been thinking about something."}

\* the loop of the interval callback from agent k of the array on, st being
\* the world fields and the timers so far; choice[g] is the content g
\* initiates with, or Null
RECURSIVE TickFrom(_, _, _)
TickFrom(k, st, choice) ==
  IF k > Len(AgentOrder) THEN st
  ELSE LET g == AgentOrder[k]
           w == PostMessage(st.w, g, WORLD, choice[g], NoEvent)
       IN IF choice[g] = Null THEN TickFrom(k + 1, st, choice)
          ELSE TickFrom(k + 1, [w |-> w, timers |-> OnMessage(st.timers, w)],
                        choice)

\* one run of the setInterval callback: every agent in turn may initiate,
\* and what it initiates is processed before the next agent is asked
Tick(choice) ==
  /\ stack = <<>>
  /\ LET st == TickFrom(1, [w |-> Now, timers |-> timers], choice)
     IN /\ memory' = st.w.memory
        /\ sequenceCounter' = st.w.sequenceCounter
        /\ relationships' = st.w.relationships
        /\ timers' = st.timers
        /\ lastOp' = Call("initiate", Null, WORLD, Null, st.w.ret)
                       @@ [choice |-> choice]
  /\ UNCHANGED <<inhabitants, listeners, stack, delivered, agents, browser>>

\* the callback of timer k runs, with Math.random() = draw in shouldRespond:
\* getState(), decideAndRespond() and, for a response, processMessage()
Fire(k, draw) ==
  /\ stack = <<>>
  /\ k \in 1..Len(timers)
  /\ ~timers[k].fired
  /\ LET g == timers[k].agent
         message == memory[timers[k].message]
         worldState == callbackWorldState(k)
         out == decideAndRespond(agents[g], g, message, worldState, draw)
         r == out.response
         w == IF r = NoResponse THEN Now
              ELSE PostMessage(Now, r.from, r.to, r.content, r.replyTo)
         expired == [timers EXCEPT ![k].fired = TRUE]
     IN /\ agents' = [agents EXCEPT ![g] = out.agent]
        /\ memory' = w.memory
        /\ sequenceCounter' = w.sequenceCounter
        /\ relationships' = w.relationships
        /\ timers' = OnMessage(expired, w)
        /\ lastOp' = Call("decideAndRespond", g, message.to, message.content,
                          NoEvent)
                       @@ [message |-> message.id,
                           from |-> message.from,
                           draw |-> draw,
                           evaluation |-> out.evaluation,
                           should |-> out.should,
                           response |-> r,
                           timer |-> k,
                           worldState |-> worldState,
                           silenceBefore |-> agents[g].silenceTicks,
                           posted |-> w.ret]
  /\ UNCHANGED <<inhabitants, listeners, stack, delivered, browser>>

\* timer k fires; once the world holds more than MaxOrchEvents events the
\* draw is one on which no agent speaks unless addressed
FireTimer(k) ==
  \E draw \in Draws :
    /\ Len(memory) <= MaxOrchEvents \/ draw = 999999
    /\ Fire(k, draw)

\* The server: it enters its agents in order, then a human enters, writes
\* to the world or to the first agent, and disconnects; the interval ticks;
\* timers fire in any order
NextOrch ==
  \/ \E k \in 1..Len(AgentOrder) :
       /\ Cardinality(inhabitants) = k - 1
       /\ ~Has(relationships, AgentOrder[k])
       /\ Enter(AgentOrder[k])
  \/ /\ \A g \in AgentIds : g \in inhabitants
     /\ ~Has(relationships, "b")
     /\ Len(memory) < MaxOrchEvents
     /\ Enter("b")
  \/ \E to \in {"a", WORLD} :
       /\ "b" \in inhabitants
       /\ Len(memory) < MaxOrchEvents
       /\ HumanMessage(to, "hi all")
  \/ /\ "b" \in inhabitants
     /\ Len(memory) < MaxOrchEvents
     /\ Leave("b")
  \/ \E choice \in [AgentIds -> InitiationTopics \cup {Null}] :
       /\ \A g \in AgentIds : g \in inhabitants
       /\ Len(memory) < MaxOrchEvents
       /\ Tick(choice)
  \/ \E k \in 1..Len(timers) : FireTimer(k)

SpecOrch == Init /\ [][NextOrch]_vars

\* timer k is set and has not fired: FireTimer(k) is enabled
Due(k) == stack = <<>> /\ k \in 1..Len(timers) /\ ~timers[k].fired

\* more timers than the server ever sets
TimerSlots == 1..(2 * MaxOrchEvents)

\* a step in which timer k fires; of the steps of NextOrch only
\* FireTimer(k) is one
Expires(k) == Due(k) /\ timers'[k].fired

\* No timer is cancelled and the event loop runs every timer that is due:
\* weak fairness of the firing of each timer, that is WF_vars(Expires(k))
\* with ENABLED <<Expires(k)>>_vars written out as Due(k)
SpecOrchFair ==
  /\ Init
  /\ [][NextOrch]_vars
  /\ \A k \in TimerSlots : []<>(~Due(k)) \/ []<><<Expires(k)>>_vars

-----------------------------------------------------------------------------
(* The server: deferred callbacks *)

\* C22: the worldState a firing callback passes to decideAndRespond is the
\* world as it is when the callback fires: its inhabitants and counts are
\* those of every enter, leave and message so far, whatever they were when
\* the callback was scheduled.
C22_StateAtFiring ==
  [][DecideStep
       => LET ws == lastOp'.worldState
          IN /\ ws.inhabitantCount = Cardinality(inhabitants)
             /\ {x.id : x \in ws.inhabitants} = inhabitants
             /\ ws.totalEvents = Len(memory)
             /\ ws.messageCount
                  = Cardinality({i \in 1..Len(memory) :
                                   memory[i].type = "message"})]_vars

\* a callback has fired in a world with other inhabitants and more events
\* than when it was scheduled
C22_Witness ==
  /\ lastOp.op = "decideAndRespond"
  /\ LET then == ScheduledState(lastOp.timer)
     IN /\ lastOp.worldState.inhabitantCount # then.inhabitantCount
        /\ lastOp.worldState.totalEvents > then.totalEvents

\* the timers set for agent g on the message at position i of world memory
TimersOf(g, i) ==
  {k \in 1..Len(timers) : timers[k].agent = g /\ timers[k].message = i}

\* C23: every recorded message has exactly one timer for each agent other
\* than its sender and none for its sender; a timer is never cancelled or
\* rearmed; an agent runs decideAndRespond on a message exactly when its
\* timer for that message fires, so never on a message of its own; and every
\* timer set eventually fires.
C23_EveryTimerFires ==
  /\ [](\A i \in 1..Len(memory) : \A g \in AgentIds :
          Cardinality(TimersOf(g, i))
            = (IF memory[i].type = "message" /\ memory[i].from # g
               THEN 1 ELSE 0))
  /\ [](\A k \in 1..Len(timers) :
          timers[k].fired <=> Evaluated(timers[k].agent, timers[k].message))
  /\ [](Len(timers) \in TimerSlots \cup {0})
  /\ [][/\ Len(timers') >= Len(timers)
        /\ \A k \in 1..Len(timers) :
             /\ timers'[k].agent = timers[k].agent
             /\ timers'[k].message = timers[k].message
             /\ timers[k].fired => timers'[k].fired]_vars
  /\ [][LET flipped == {k \in 1..Len(timers) :
                          ~timers[k].fired /\ timers'[k].fired}
        IN IF DecideStep
           THEN /\ flipped = {lastOp'.timer}
                /\ timers[lastOp'.timer].agent = lastOp'.id
                /\ memory[timers[lastOp'.timer].message].id = lastOp'.message
                /\ lastOp'.from # lastOp'.id
           ELSE /\ flipped = {}
                /\ agents' = agents]_vars
  /\ \A k \in TimerSlots :
       (k <= Len(timers)) ~> (k <= Len(timers) /\ timers[k].fired)

\* an agent's message has been recorded, its timer for the other agent has
\* fired, and the sender has neither a timer for it nor an evaluation of it
C23_Witness ==
  \E i \in 1..Len(memory) :
    /\ memory[i].type = "message"
    /\ memory[i].from \in AgentIds
    /\ \A g \in AgentIds \ {memory[i].from} :
         \E k \in TimersOf(g, i) : timers[k].fired /\ Evaluated(g, i)
    /\ TimersOf(memory[i].from, i) = {}
    /\ ~Evaluated(memory[i].from, i)

\* C24: a decideAndRespond call that returns null adds exactly 1 to the
\* agent's silenceTicks and one that returns a response sets it to 0; no
\* other step (the tick loop's initiate, the world's enter, leave and
\* processMessage) changes any agent's silenceTicks.
C24_SilenceTicks ==
  [][\A g \in AgentIds :
       IF DecideStep /\ lastOp'.id = g
       THEN agents'[g].silenceTicks
              = (IF lastOp'.response = NoResponse
                 THEN agents[g].silenceTicks + 1 ELSE 0)
       ELSE agents'[g].silenceTicks = agents[g].silenceTicks]_vars

\* an agent that had stayed silent on one message has just answered another
C24_Witness ==
  /\ lastOp.op = "decideAndRespond"
  /\ lastOp.response # NoResponse
  /\ lastOp.silenceBefore > 0
  /\ agents[lastOp.id].silenceTicks = 0

-----------------------------------------------------------------------------
(* The world: further properties of the graph and of the fan-out *)

\* C31: on every edge, a non-default model means at least 2 interactions
\* and 3 or more interactions mean a non-default model, whatever the mix of
\* direct messages, broadcasts, entries, departures and re-entries.
C31_ModelVsInteractions ==
  \A x \in DOMAIN relationships : \A y \in DOMAIN relationships[x] :
    LET rel == relationships[x][y]
    IN /\ rel.model = "non-default" => rel.interactions >= 2
       /\ rel.interactions >= 3 => rel.model = "non-default"

\* an edge has counted two broadcasts and one direct message in a world
\* that somebody has left
C31_Witness ==
  /\ \E x \in DOMAIN relationships : \E y \in DOMAIN relationships[x] :
       /\ relationships[x][y].interactions = 3
       /\ relationships[x][y].entanglement = EntDirect
       /\ relationships[x][y].model = "non-default"
  /\ \E e \in 1..Len(memory) : memory[e].type = "leave"

\* C32: every subscriber is handed `message` events in strictly ascending
\* sequence order, also when a handler registered before it calls
\* processMessage during the fan-out of an outer message.
C32_AscendingDelivery ==
  \A i, j \in 1..Len(delivered) :
    (/\ i < j
     /\ delivered[i].ev = "message"
     /\ delivered[j].ev = "message"
     /\ delivered[i].h = delivered[j].h)
      => delivered[i].seq < delivered[j].seq

\* C37: processMessage never modifies an edge whose source inhabitant is
\* not active: a direct message from an active sender to a departed
\* recipient leaves every field of the recipient's edge to the sender as it
\* was.
C37_DepartedEdgesUntouched ==
  [][IsCall("processMessage")
       => \A x \in DOMAIN relationships : \A y \in DOMAIN relationships[x] :
            x \notin inhabitants
              => /\ HasEdge(relationships', x, y)
                 /\ relationships'[x][y] = relationships[x][y]]_vars

-----------------------------------------------------------------------------
(* Agents: the order of the phases *)

\* what evaluate() adds up for agent g apart from the trust bonus
BaseWeight(g, to, content) ==
  (IF to = g THEN 60 ELSE IF to = WORLD THEN 20 ELSE 0)
  + (IF MentionsInterest(g, content) THEN 30 ELSE 0)
  + (IF HasQuestion(content) THEN 15 ELSE 0)

\* whether agent g has already decided on a message of that sender
HeardFrom(g, from) ==
  \E i \in 1..Len(memory) :
    /\ memory[i].type = "message"
    /\ memory[i].from = from
    /\ Evaluated(g, i)

\* C38: decideAndRespond evaluates before it updates its model of the
\* sender: the first message an agent processes from a sender is evaluated
\* without the 0.15 trust bonus, and every later message from that sender
\* with it (the sum being cut off at 1).
C38_BonusFromSecondMessage ==
  [][(DecideStep /\ lastOp'.from # lastOp'.id)
       => LET g == lastOp'.id
              base == BaseWeight(g, lastOp'.to, lastOp'.content)
              bonus == IF HeardFrom(g, lastOp'.from) THEN 15 ELSE 0
          IN /\ lastOp'.evaluation = Min(100, base + bonus)
             /\ HeardFrom(g, lastOp'.from)
                  <=> lastOp'.from \in DOMAIN agents[g].models
             /\ lastOp'.from \in DOMAIN agents'[g].models]_vars

\* the agent has evaluated a first message of a sender without the bonus and
\* now a second one with it
C38_Witness ==
  /\ lastOp.op = "decideAndRespond"
  /\ lastOp.from = "b"
  /\ lastOp.evaluation = BaseWeight(lastOp.id, lastOp.to, lastOp.content) + 15
  /\ \E i \in 1..Len(memory) :
       /\ memory[i].type = "message"
       /\ memory[i].from = "b"
       /\ memory[i].id # lastOp.message
       /\ Evaluated(lastOp.id, i)
       /\ agents[lastOp.id].evaluations[memory[i].id]
            = BaseWeight(lastOp.id, memory[i].to, memory[i].content)

-----------------------------------------------------------------------------
(* The server: further properties *)

\* The server with a human who writes to the first agent, twice if the
\* agent has not answered in between; the timers of both messages are
\* pending together and fire in any order (their delays are drawn
\* independently from 1.5 to 5.5 seconds)
NextRace ==
  \/ \E k \in 1..Len(AgentOrder) :
       /\ Cardinality(inhabitants) = k - 1
       /\ ~Has(relationships, AgentOrder[k])
       /\ Enter(AgentOrder[k])
  \/ /\ \A g \in AgentIds : g \in inhabitants
     /\ ~Has(relationships, "b")
     /\ Enter("b")
  \/ /\ "b" \in inhabitants
     /\ Len(memory) < MaxRaceEvents
     /\ HumanMessage("a", "hi all")
  \/ \E k \in 1..Len(timers) : FireTimer(k)

SpecRace == Init /\ [][NextRace]_vars

\* C33: every agent's experienceLog is in strictly increasing order of
\* `sequence`: an agent never integrates a message after one with a higher
\* world sequence number.
C33_LogInSequenceOrder ==
  \A g \in AgentIds :
    \A i, j \in 1..Len(agents[g].experienceLog) :
      i < j => agents[g].experienceLog[i].sequence
                 < agents[g].experienceLog[j].sequence

\* C34: on the server every recorded message with a replyTo names the id of
\* a message recorded before it, with a strictly smaller sequence number.
C34_ReplyToEarlier ==
  \A i \in 1..Len(memory) :
    (memory[i].type = "message" /\ memory[i].replyTo # NoEvent)
      => \E j \in 1..(i - 1) :
           /\ memory[j].type = "message"
           /\ memory[j].id = memory[i].replyTo
           /\ memory[j].sequence < memory[i].sequence

\* the log holds an agent's answer and a message an agent initiated
C34_Witness ==
  /\ \E i \in 1..Len(memory) :
       memory[i].type = "message" /\ memory[i].replyTo # NoEvent
  /\ \E i \in 1..Len(memory) :
       /\ memory[i].type = "message"
       /\ memory[i].from \in AgentIds
       /\ memory[i].replyTo = NoEvent

\* C35: on the server no recorded message goes from an agent directly to
\* another agent: every direct message of an agent answers a message in
\* which a human addressed that agent, and goes to that human.
C35_NoAgentToAgent ==
  \A i \in 1..Len(memory) :
    (/\ memory[i].type = "message"
     /\ memory[i].from \in AgentIds
     /\ memory[i].to # WORLD)
      => /\ memory[i].to \notin AgentIds
         /\ KindOf(memory[i].to) = "human"
         /\ \E j \in 1..(i - 1) :
              /\ memory[j].type = "message"
              /\ memory[j].id = memory[i].replyTo
              /\ memory[j].to = memory[i].from
              /\ memory[j].from = memory[i].to

\* an agent has answered a human directly and the other agent has decided
\* on that answer
C35_Witness ==
  \E i \in 1..Len(memory) :
    /\ memory[i].type = "message"
    /\ memory[i].from \in AgentIds
    /\ memory[i].to = "b"
    /\ \E g \in AgentIds \ {memory[i].from} : Evaluated(g, i)

-----------------------------------------------------------------------------
(* The server: one socket *)

\* the ids uuidv4() gives the HumanInhabitant objects of the socket, in the
\* order of their construction
HumanIds == <<"b", "d">>

\* the positions in world memory of the humans' enter events; only the
\* socket's 'human:enter' handler enters a human
HumanEntries ==
  {i \in 1..Len(memory) :
     memory[i].type = "enter" /\ memory[i].inhabitantKind = "human"}

\* the socket's `humanInhabitant`: null at first, then the object made by
\* the latest 'human:enter'
humanInhabitant ==
  IF HumanEntries = {} THEN Null
  ELSE memory[SetMax(HumanEntries)].inhabitantId

\* whether the socket's 'disconnect' handler has run for an entered human:
\* nothing else on the server calls leave()
Disconnected == \E i \in 1..Len(memory) : memory[i].type = "leave"

\* 'disconnect': world.leave(humanInhabitant.id) for the one object the
\* variable holds
disconnectLeaves == {humanInhabitant}

\* socket.on('human:enter'): a new HumanInhabitant enters the world and
\* replaces the one the variable held
SocketEnter ==
  /\ ~Disconnected
  /\ Cardinality(HumanEntries) < Len(HumanIds)
  /\ Enter(HumanIds[Cardinality(HumanEntries) + 1])

\* socket.on('human:message') with `if (!humanInhabitant) return`
SocketMessage(to, content) ==
  /\ ~Disconnected
  /\ humanInhabitant # Null
  /\ HumanMessageFrom(humanInhabitant, to, content)

\* socket.on('disconnect') of a socket that has entered a human
SocketDisconnect ==
  /\ ~Disconnected
  /\ humanInhabitant # Null
  /\ \E id \in disconnectLeaves : Leave(id)

\* The server and one socket: the agents enter, the socket enters a human
\* (more than once if it sends 'human:enter' again), writes, and
\* disconnects; timers fire in any order
NextSocket ==
  \/ \E k \in 1..Len(AgentOrder) :
       /\ Cardinality(inhabitants) = k - 1
       /\ ~Has(relationships, AgentOrder[k])
       /\ Enter(AgentOrder[k])
  \/ /\ \A g \in AgentIds : g \in inhabitants
     /\ Len(memory) < MaxSocketEvents
     /\ SocketEnter
  \/ \E to \in {"a", WORLD} :
       /\ Len(memory) < MaxSocketEvents
       /\ SocketMessage(to, "hi all")
  \/ SocketDisconnect
  \/ \E k \in 1..Len(timers) : FireTimer(k)

SpecSocket == Init /\ [][NextSocket]_vars

\* C36: once the socket has disconnected, no human that was entered through
\* it, by however many 'human:enter' events, is in the active set.
C36_DisconnectLeavesAll ==
  Disconnected
    => \A i \in HumanEntries : memory[i].inhabitantId \notin inhabitants

-----------------------------------------------------------------------------
(* The two builds of the World *)

\* the same call made on the server's World and on the browser's
TwinEnter(id) ==
  /\ stack = <<>>
  /\ DoEnter(stack, id)
  /\ browser' = browserEnter(browser, id)
  /\ UNCHANGED <<delivered, agents, timers>>

TwinLeave(id) ==
  /\ stack = <<>>
  /\ DoLeave(stack, id)
  /\ browser' = browserLeave(browser, id)
  /\ UNCHANGED <<delivered, agents, timers>>

TwinProcessMessage(from, to, content) ==
  /\ stack = <<>>
  /\ DoProcessMessage(stack, from, to, content, NoEvent)
  /\ browser' = browserProcessMessage(browser, from, to, content, NoEvent)
  /\ UNCHANGED <<delivered, agents, timers>>

TwinContents == {"Biology is fascinating", "more biology", "", Null}

\* Two inhabitants enter, one of them may leave, and they broadcast and
\* write to each other, in both Worlds at once
NextTwin ==
  \/ \E id \in {"a", "b"} : Len(memory) < MaxTwinEvents /\ TwinEnter(id)
  \/ Len(memory) < MaxTwinEvents /\ TwinLeave("b")
  \/ \E from \in {"a", "b"}, content \in TwinContents :
       \E to \in (IF from = "a" THEN {"b", WORLD} ELSE {WORLD}) :
         /\ Len(memory) < MaxTwinEvents
         /\ TwinProcessMessage(from, to, content)

SpecTwin == Init /\ [][NextTwin]_vars

\* an event without its id, which each build makes in its own way
SansId(e) == [f \in DOMAIN e \ {"id"} |-> e[f]]

\* C39: run on the same enter, leave and processMessage calls, the server's
\* World and the browser's return null for the same calls and events with
\* the same sequence numbers otherwise, and have the same active set, the
\* same relationship graph and the same log but for the ids, the
\* classification of every message included.
C39_SameEngine ==
  /\ browser.ret = lastOp.ret
  /\ browser.sequenceCounter = sequenceCounter
  /\ browser.inhabitants = inhabitants
  /\ browser.relationships = relationships
  /\ Len(browser.memory) = Len(memory)
  /\ \A i \in 1..Len(memory) : SansId(browser.memory[i]) = SansId(memory[i])

\* both Worlds have rejected a message of an inhabitant that left, after
\* recording one that was sent to it in its absence
C39_Witness ==
  /\ lastOp.op = "processMessage"
  /\ lastOp.ret = NoEvent
  /\ browser.ret = NoEvent
  /\ \E i \in 1..Len(browser.memory) :
       /\ browser.memory[i].type = "message"
       /\ browser.memory[i].to = "b"
       /\ browser.memory[i].classification = "perturbation"
       /\ ~ActiveAt("b", i)
====
